---- MODULE Spec2Model ----
(***************************************************************************)
(* Model of the hetida designer structure service:                         *)
(*   - hetdesrun/structure/models.py: construction of a CompleteStructure  *)
(*     from a submitted document (pydantic v1 validator chain),            *)
(*   - hetdesrun/backend/service/virtual_structure_router.py: the          *)
(*     administrative update operation,                                    *)
(*   - hetdesrun/structure/structure_service.py: the persistence service,  *)
(*   - hetdesrun/adapters/virtual_structure_adapter/resolve_wirings.py and *)
(*     hetdesrun/wiring/__init__.py: resolution of virtual wirings and the *)
(*     dispatch of wirings to the adapters.                                *)
(*                                                                         *)
(* A submitted document is a record with the four lists element_types,     *)
(* thing_nodes, sources and sinks (a list left out of the document reads   *)
(* as the empty list in every validator, models.py:364,424,494,536-549).   *)
(* Python None is PyNone for strings and the empty option <<>> for lists,  *)
(* a present optional value v is <<v>>.                                    *)
(***************************************************************************)
EXTENDS Integers, Sequences, FiniteSets, TLC

VARIABLES
    doc,                        \* the document of the current request
    delete_existing_structure,  \* the query flag of the current request
    outcome,                    \* what constructing CompleteStructure(doc) ended with
    pc,                         \* position of the request
    store,                      \* the persisted structure
    before,                     \* the persisted structure when the last call began
    calls,                      \* persistence functions invoked by the current request
    nreq,                       \* number of requests received
    request,                    \* the call made last on one of the services
    response,                   \* what that call returned or raised
    held_wiring                 \* the WorkflowWiring object the caller of a wiring function holds

vars == <<doc, delete_existing_structure, outcome, pc, store, before, calls, nreq,
          request, response, held_wiring>>

(***************************************************************************)
(* Bounds of the model                                                     *)
(***************************************************************************)
MaxTN == 3
MaxET == 2
MaxSS == 2
MaxIds == 2
MaxFilters == 1
MaxNameLen == 3
MaxRequests == 3
MaxLookup == 2
MaxWirings == 2

(***************************************************************************)
(* Value domains                                                           *)
(***************************************************************************)
PyNone == "<None>"
NA == "-"
ExternalIds == {"", "a", "b"}
StakeholderKeys == {"SK1", "SK2"}
Chars == {" ", "a", "A"}
FilterTypes == {"free_text"}

SeqsUpTo(S, n) == UNION {[1..k -> S] : k \in 0..n}

Range(s) == {s[i] : i \in 1..Len(s)}

\* first index of a sequence satisfying P, 0 when there is none
FirstIdx(s, P(_)) ==
    IF \E i \in 1..Len(s) : P(i)
    THEN CHOOSE i \in 1..Len(s) : P(i) /\ \A j \in 1..(i - 1) : ~P(j)
    ELSE 0

\* Python truthiness of an optional string
Truthy(s) == s # PyNone /\ s # ""

(***************************************************************************)
(* Errors raised by validators.  exc is the Python exception class, check  *)
(* the validator raising it, x/y/z the values the message names.           *)
(***************************************************************************)
NoError == [exc |-> "none", check |-> NA, x |-> NA, y |-> NA, z |-> NA]

Raise(exc, check, x, y, z) == [exc |-> exc, check |-> check, x |-> x, y |-> y, z |-> z]

(***************************************************************************)
(* CompleteStructure.validate_root_nodes_parent_ids_are_none               *)
(***************************************************************************)
\* the parent test written as a truth test instead of `is not None`
validate_root_nodes_parent_ids_are_none_Truthy(values) ==
    LET nodes == values.thing_nodes
        external_ids == {nodes[i].external_id : i \in 1..Len(nodes)}
        bad(i) == /\ Truthy(nodes[i].parent_external_node_id)
                  /\ nodes[i].parent_external_node_id \notin external_ids
        i == FirstIdx(nodes, bad)
    IN  IF i = 0 THEN NoError
        ELSE Raise("ValueError", "validate_root_nodes_parent_ids_are_none",
                   nodes[i].name, nodes[i].parent_external_node_id, NA)

validate_root_nodes_parent_ids_are_none(values) ==
    LET nodes == values.thing_nodes
        external_ids == {nodes[i].external_id : i \in 1..Len(nodes)}
        bad(i) == /\ nodes[i].parent_external_node_id # PyNone
                  /\ nodes[i].parent_external_node_id \notin external_ids
        i == FirstIdx(nodes, bad)
    IN  IF i = 0 THEN NoError
        ELSE Raise("ValueError", "validate_root_nodes_parent_ids_are_none",
                   nodes[i].name, nodes[i].parent_external_node_id, NA)

(***************************************************************************)
(* CompleteStructure.check_for_duplicate_key_and_id_pairs                  *)
(* values.items() is walked in the order element_types, thing_nodes,       *)
(* sources, sinks.                                                         *)
(***************************************************************************)
ListNames == <<"element_types", "thing_nodes", "sources", "sinks">>

ListOf(values, element_name) ==
    CASE element_name = "element_types" -> values.element_types
      [] element_name = "thing_nodes" -> values.thing_nodes
      [] element_name = "sources" -> values.sources
      [] element_name = "sinks" -> values.sinks

\* seen holding external ids instead of (stakeholder key, external id) pairs
DuplicatePairIdx_IdOnly(element_list) ==
    LET seenBefore(j) == \E i \in 1..(j - 1) :
            element_list[i].external_id = element_list[j].external_id
    IN  FirstIdx(element_list, seenBefore)

DuplicatePairIdx(element_list) ==
    LET seenBefore(j) == \E i \in 1..(j - 1) :
            /\ element_list[i].stakeholder_key = element_list[j].stakeholder_key
            /\ element_list[i].external_id = element_list[j].external_id
    IN  FirstIdx(element_list, seenBefore)

\* the validator that lets every repeat pass
check_for_duplicate_key_and_id_pairs_Off(values) == NoError

check_for_duplicate_key_and_id_pairs(values) ==
    LET dup(n) == DuplicatePairIdx(ListOf(values, ListNames[n])) # 0
        n == FirstIdx(ListNames, dup)
    IN  IF n = 0 THEN NoError
        ELSE LET element_list == ListOf(values, ListNames[n])
                 j == DuplicatePairIdx(element_list)
             IN  Raise("ValueError", "check_for_duplicate_key_and_id_pairs",
                       element_list[j].stakeholder_key, element_list[j].external_id,
                       ListNames[n])

(***************************************************************************)
(* CompleteStructure.check_for_duplicate_ids_in_thing_node_external_ids    *)
(* Iterating a None list raises TypeError (models.py:408).                 *)
(***************************************************************************)
DuplicateIdIdx(ids) ==
    LET seenBefore(j) == \E i \in 1..(j - 1) : ids[i] = ids[j]
    IN  FirstIdx(ids, seenBefore)

ElementIdsError(element, element_name) ==
    IF element.thing_node_external_ids = <<>>
    THEN Raise("TypeError", "check_for_duplicate_ids_in_thing_node_external_ids",
               NA, NA, NA)
    ELSE LET ids == element.thing_node_external_ids[1]
             j == DuplicateIdIdx(ids)
         IN  IF j = 0 THEN NoError
             ELSE Raise("ValueError", "check_for_duplicate_ids_in_thing_node_external_ids",
                        element.external_id, element_name, ids[j])

\* seen created once per list instead of once per element
FirstElementError_SharedSeen(element_list, element_name) ==
    LET earlier(i) == UNION {IF element_list[h].thing_node_external_ids = <<>> THEN {}
                             ELSE Range(element_list[h].thing_node_external_ids[1]) :
                             h \in 1..(i - 1)}
        bad(i) == \/ ElementIdsError(element_list[i], element_name) # NoError
                  \/ Range(element_list[i].thing_node_external_ids[1]) \cap earlier(i) # {}
        i == FirstIdx(element_list, bad)
    IN  IF i = 0 THEN NoError
        ELSE IF ElementIdsError(element_list[i], element_name) # NoError
        THEN ElementIdsError(element_list[i], element_name)
        ELSE Raise("ValueError", "check_for_duplicate_ids_in_thing_node_external_ids",
                   element_list[i].external_id, element_name,
                   CHOOSE id \in Range(element_list[i].thing_node_external_ids[1])
                                    \cap earlier(i) : TRUE)

FirstElementError(element_list, element_name) ==
    LET bad(i) == ElementIdsError(element_list[i], element_name) # NoError
        i == FirstIdx(element_list, bad)
    IN  IF i = 0 THEN NoError ELSE ElementIdsError(element_list[i], element_name)

check_for_duplicate_ids_in_thing_node_external_ids(values) ==
    LET e1 == FirstElementError(values.sources, "sources")
    IN  IF e1 # NoError THEN e1 ELSE FirstElementError(values.sinks, "sinks")

(***************************************************************************)
(* CompleteStructure.check_stakeholder_key_consistency                     *)
(* Iterative depth-first search from every root: the stack is popped at    *)
(* its end, visited holds external ids.                                    *)
(***************************************************************************)
ChildNodes(thing_nodes, current_external_id) ==
    SelectSeq(thing_nodes, LAMBDA node : node.parent_external_node_id = current_external_id)

RECURSIVE TraverseHierarchy(_, _, _, _)
TraverseHierarchy(thing_nodes, expected_stakeholder_key, stack, visited) ==
    IF stack = <<>> THEN NoError
    ELSE LET current_node == stack[Len(stack)]
             popped == SubSeq(stack, 1, Len(stack) - 1)
             current_external_id == current_node.external_id
         IN  IF current_external_id \in visited
             THEN TraverseHierarchy(thing_nodes, expected_stakeholder_key, popped, visited)
             ELSE IF current_node.stakeholder_key # expected_stakeholder_key
             THEN Raise("ValueError", "check_stakeholder_key_consistency",
                        current_external_id, expected_stakeholder_key,
                        current_node.stakeholder_key)
             ELSE TraverseHierarchy(thing_nodes, expected_stakeholder_key,
                                    popped \o ChildNodes(thing_nodes, current_external_id),
                                    visited \cup {current_external_id})

check_stakeholder_key_consistency(values) ==
    LET thing_nodes == values.thing_nodes
        root_nodes == SelectSeq(thing_nodes,
                                LAMBDA node : node.parent_external_node_id = PyNone)
        result(r) == TraverseHierarchy(thing_nodes, root_nodes[r].stakeholder_key,
                                       <<root_nodes[r]>>, {})
        bad(r) == result(r) # NoError
        r == FirstIdx(root_nodes, bad)
    IN  IF r = 0 THEN NoError ELSE result(r)

(***************************************************************************)
(* CompleteStructure.check_for_circular_reference                          *)
(* nodes_by_external_id is a dict comprehension: of several nodes with one *)
(* external id the last one is kept.  visit() removes a node from visited  *)
(* when it returns, so visited is empty whenever the loop at line 522      *)
(* starts a walk.                                                          *)
(***************************************************************************)
NodeByExternalId(thing_nodes, id) ==
    LET has(i) == thing_nodes[Len(thing_nodes) + 1 - i].external_id = id
        k == FirstIdx(thing_nodes, has)
    IN  thing_nodes[Len(thing_nodes) + 1 - k]

RECURSIVE visit(_, _, _)
visit(thing_nodes, node, visited) ==
    LET node_external_id == node.external_id
        parent_external_id == node.parent_external_node_id
        known == {thing_nodes[i].external_id : i \in 1..Len(thing_nodes)}
    IN  IF node_external_id \in visited
        THEN Raise("ValueError", "check_for_circular_reference", node_external_id, NA, NA)
        ELSE IF Truthy(parent_external_id) /\ parent_external_id \in known
        THEN visit(thing_nodes, NodeByExternalId(thing_nodes, parent_external_id),
                   visited \cup {node_external_id})
        ELSE NoError

\* visit() never removing a node from visited
RECURSIVE visit_KeepVisited(_, _, _)
visit_KeepVisited(thing_nodes, node, visited) ==
    LET node_external_id == node.external_id
        parent_external_id == node.parent_external_node_id
        known == {thing_nodes[i].external_id : i \in 1..Len(thing_nodes)}
    IN  IF node_external_id \in visited
        THEN [error |-> Raise("ValueError", "check_for_circular_reference",
                              node_external_id, NA, NA),
              visited |-> visited]
        ELSE IF Truthy(parent_external_id) /\ parent_external_id \in known
        THEN visit_KeepVisited(thing_nodes,
                               NodeByExternalId(thing_nodes, parent_external_id),
                               visited \cup {node_external_id})
        ELSE [error |-> NoError, visited |-> visited \cup {node_external_id}]

RECURSIVE Walk_KeepVisited(_, _, _)
Walk_KeepVisited(thing_nodes, i, visited) ==
    IF i > Len(thing_nodes) THEN NoError
    ELSE IF thing_nodes[i].external_id \in visited
    THEN Walk_KeepVisited(thing_nodes, i + 1, visited)
    ELSE LET r == visit_KeepVisited(thing_nodes, thing_nodes[i], visited)
         IN  IF r.error # NoError THEN r.error
             ELSE Walk_KeepVisited(thing_nodes, i + 1, r.visited)

check_for_circular_reference_KeepVisited(values) ==
    Walk_KeepVisited(values.thing_nodes, 1, {})

check_for_circular_reference(values) ==
    LET thing_nodes == values.thing_nodes
        bad(i) == visit(thing_nodes, thing_nodes[i], {}) # NoError
        i == FirstIdx(thing_nodes, bad)
    IN  IF i = 0 THEN NoError ELSE visit(thing_nodes, thing_nodes[i], {})

(***************************************************************************)
(* CompleteStructure.validate_source_sink_references                       *)
(* The message of the sink loop reads the variable `source` (line 556):    *)
(* the last element of the sources loop, unbound when sources is empty.    *)
(***************************************************************************)
MissingReference(element, thing_node_ids) ==
    IF element.thing_node_external_ids = <<>> THEN "TypeError"
    ELSE IF \E k \in 1..Len(element.thing_node_external_ids[1]) :
                element.thing_node_external_ids[1][k] \notin thing_node_ids
    THEN "ValueError"
    ELSE "none"

MissingId(element, thing_node_ids) ==
    LET ids == element.thing_node_external_ids[1]
        missing(k) == ids[k] \notin thing_node_ids
    IN  ids[FirstIdx(ids, missing)]

SinkMessageId(sources, sink) == sources[Len(sources)].external_id

validate_source_sink_references(values) ==
    LET thing_node_ids == {values.thing_nodes[i].external_id :
                               i \in 1..Len(values.thing_nodes)}
        badSource(i) == MissingReference(values.sources[i], thing_node_ids) # "none"
        badSink(i) == MissingReference(values.sinks[i], thing_node_ids) # "none"
        s == FirstIdx(values.sources, badSource)
        t == FirstIdx(values.sinks, badSink)
    IN  IF s # 0
        THEN IF MissingReference(values.sources[s], thing_node_ids) = "TypeError"
             THEN Raise("TypeError", "validate_source_sink_references", NA, NA, NA)
             ELSE Raise("ValueError", "validate_source_sink_references", "Source",
                        values.sources[s].external_id,
                        MissingId(values.sources[s], thing_node_ids))
        ELSE IF t # 0
        THEN IF MissingReference(values.sinks[t], thing_node_ids) = "TypeError"
             THEN Raise("TypeError", "validate_source_sink_references", NA, NA, NA)
             ELSE IF values.sources = <<>>
             THEN Raise("UnboundLocalError", "validate_source_sink_references", NA, NA, NA)
             ELSE Raise("ValueError", "validate_source_sink_references", "Sink",
                        SinkMessageId(values.sources, values.sinks[t]),
                        MissingId(values.sinks[t], thing_node_ids))
        ELSE NoError

(***************************************************************************)
(* Filter (models.py:135-157).  A filter item of the document is a record  *)
(* of optional values: name (a sequence of characters), type, required.    *)
(***************************************************************************)
IsSpace(c) == c = " "

Lower(c) == IF c = "A" THEN "a" ELSE c

RECURSIVE LStrip(_)
LStrip(s) == IF s # <<>> /\ IsSpace(Head(s)) THEN LStrip(Tail(s)) ELSE s

RECURSIVE RStrip(_)
RStrip(s) ==
    IF s # <<>> /\ IsSpace(s[Len(s)]) THEN RStrip(SubSeq(s, 1, Len(s) - 1)) ELSE s

\* str.strip()
Strip(s) == RStrip(LStrip(s))

\* str.lower()
LowerStr(s) == [i \in 1..Len(s) |-> Lower(s[i])]

\* "_".join(s.split()): the words between runs of whitespace, joined by "_"
RECURSIVE JoinSplit(_, _, _)
JoinSplit(s, started, pending) ==
    IF s = <<>> THEN <<>>
    ELSE IF IsSpace(Head(s)) THEN JoinSplit(Tail(s), started, started)
    ELSE (IF pending THEN <<"_">> ELSE <<>>) \o <<Head(s)>> \o JoinSplit(Tail(s), TRUE, FALSE)

\* Filter.set_internal_name: values["name"] raises KeyError when the key is absent
set_internal_name(values) ==
    IF values.name = <<>> THEN <<>>
    ELSE JoinSplit(LowerStr(Strip(values.name[1])), FALSE, FALSE)

\* Filter.no_empty_name
no_empty_name(value) == Strip(value) # <<>>

\* Source.validate_filters / Sink.validate_filters on one item: an empty dict is falsy
EmptyFilter == [name |-> <<>>, type |-> <<>>, required |-> <<>>]

validate_filters(v) == IF v = EmptyFilter THEN EmptyFilter ELSE v

\* construction of one Filter: the exception it ends with, "none" when it is built
FilterError(v) ==
    LET values == validate_filters(v)
    IN  IF values.name = <<>> THEN "KeyError"
        ELSE IF \/ ~no_empty_name(values.name[1])
                \/ values.type = <<>>
                \/ values.type # <<>> /\ values.type[1] \notin FilterTypes
                \/ values.required = <<>>
        THEN "ValidationError"
        ELSE "none"

FilterObject(v) ==
    [name |-> v.name[1], internal_name |-> set_internal_name(v),
     type |-> v.type[1], required |-> v.required[1]]

(***************************************************************************)
(* Field validation of Source / Sink (models.py:160-329) inside            *)
(* CompleteStructure: every item of passthrough_filters is built in list   *)
(* order; an exception that is not a ValueError, TypeError or              *)
(* AssertionError leaves the validation at once, the others are collected. *)
(***************************************************************************)
PassthroughFilters(element) ==
    IF element.passthrough_filters = <<>> THEN <<>> ELSE element.passthrough_filters[1]

RECURSIVE AllFilters(_)
AllFilters(element_list) ==
    IF element_list = <<>> THEN <<>>
    ELSE PassthroughFilters(Head(element_list)) \o AllFilters(Tail(element_list))

ElementObject(element) ==
    [external_id |-> element.external_id,
     stakeholder_key |-> element.stakeholder_key,
     thing_node_external_ids |-> element.thing_node_external_ids,
     passthrough_filters |->
        IF element.passthrough_filters = <<>> THEN <<>>
        ELSE <<[k \in 1..Len(element.passthrough_filters[1]) |->
                    FilterObject(element.passthrough_filters[1][k])]>>]

\* CompleteStructure.check_element_types_not_empty
check_element_types_not_empty(v) ==
    IF v = <<>>
    THEN Raise("ValueError", "check_element_types_not_empty", NA, NA, NA)
    ELSE NoError

ValidateFields(values) ==
    LET filters == AllFilters(values.sources) \o AllFilters(values.sinks)
        fault(k) == FilterError(filters[k]) = "KeyError"
        invalid(k) == FilterError(filters[k]) = "ValidationError"
    IN  IF FirstIdx(filters, fault) # 0
        THEN Raise("KeyError", "Filter.set_internal_name", NA, NA, NA)
        ELSE IF check_element_types_not_empty(values.element_types) # NoError
        THEN check_element_types_not_empty(values.element_types)
        ELSE IF FirstIdx(filters, invalid) # 0
        THEN Raise("ValueError", "Filter", NA, NA, NA)
        ELSE NoError

(***************************************************************************)
(* Construction of CompleteStructure (models.py:332-560) under pydantic    *)
(* v1: the pre root validators run in the order of their definition and    *)
(* the first one that raises ends the validation; then the fields are      *)
(* validated.  ValueError, TypeError and AssertionError become a           *)
(* ValidationError, any other exception leaves the constructor as it is.   *)
(***************************************************************************)
PreRootValidators ==
    <<"validate_root_nodes_parent_ids_are_none",
      "check_for_duplicate_key_and_id_pairs",
      "check_for_duplicate_ids_in_thing_node_external_ids",
      "check_stakeholder_key_consistency",
      "check_for_circular_reference",
      "validate_source_sink_references">>

RunValidator(name, values) ==
    CASE name = "validate_root_nodes_parent_ids_are_none" ->
            validate_root_nodes_parent_ids_are_none(values)
      [] name = "check_for_duplicate_key_and_id_pairs" ->
            check_for_duplicate_key_and_id_pairs(values)
      [] name = "check_for_duplicate_ids_in_thing_node_external_ids" ->
            check_for_duplicate_ids_in_thing_node_external_ids(values)
      [] name = "check_stakeholder_key_consistency" ->
            check_stakeholder_key_consistency(values)
      [] name = "check_for_circular_reference" ->
            check_for_circular_reference(values)
      [] name = "validate_source_sink_references" ->
            validate_source_sink_references(values)

Caught == {"ValueError", "TypeError", "AssertionError"}

NoStructure == [element_types |-> <<>>, thing_nodes |-> <<>>, sources |-> <<>>, sinks |-> <<>>]

Rejected(error) ==
    [kind |-> IF error.exc \in Caught THEN "ValidationError" ELSE error.exc,
     error |-> error, structure |-> NoStructure]

\* the error of the first pre root validator that raises, in the order they run
RECURSIVE FirstRaised(_, _)
FirstRaised(values, n) ==
    IF n > Len(PreRootValidators) THEN NoError
    ELSE LET error == RunValidator(PreRootValidators[n], values)
         IN  IF error # NoError THEN error ELSE FirstRaised(values, n + 1)

CompleteStructure(values) ==
    LET error == FirstRaised(values, 1)
        field_error == ValidateFields(values)
    IN  IF error # NoError THEN Rejected(error)
        ELSE IF field_error # NoError THEN Rejected(field_error)
        ELSE [kind |-> "accepted", error |-> NoError,
              structure |->
                [element_types |-> values.element_types,
                 thing_nodes |-> values.thing_nodes,
                 sources |-> [i \in 1..Len(values.sources) |->
                                 ElementObject(values.sources[i])],
                 sinks |-> [i \in 1..Len(values.sinks) |->
                               ElementObject(values.sinks[i])]]]

(***************************************************************************)
(* Submitted documents.  Every entity carries the fields the validators    *)
(* read; a ThingNode is named after its position in the list, and so is a  *)
(* Source or Sink of the attachment documents.                             *)
(***************************************************************************)
ElementTypeShapes == [external_id : {"a", "b"}, stakeholder_key : StakeholderKeys]

\* ThingNodes of one stakeholder key, the empty string among their external ids
LinkNodeShapes ==
    [external_id : ExternalIds, stakeholder_key : {"SK1"},
     parent_external_node_id : ExternalIds \cup {PyNone}]

\* ThingNodes of two stakeholder keys
KeyNodeShapes ==
    [external_id : {"a", "b"}, stakeholder_key : StakeholderKeys,
     parent_external_node_id : {"a", "b", PyNone}]

ThingNode(shape, i) ==
    [external_id |-> shape.external_id, stakeholder_key |-> shape.stakeholder_key,
     parent_external_node_id |-> shape.parent_external_node_id, name |-> ToString(i)]

ThingNodes(shapes) == [i \in 1..Len(shapes) |-> ThingNode(shapes[i], i)]

Element(external_id, stakeholder_key, ids, filters) ==
    [external_id |-> external_id, stakeholder_key |-> stakeholder_key,
     thing_node_external_ids |-> ids, passthrough_filters |-> filters]

ET1 == [external_id |-> "a", stakeholder_key |-> "SK1", name |-> "T"]

ET2 == [external_id |-> "b", stakeholder_key |-> "SK2", name |-> "U"]

RootA == ThingNode([external_id |-> "a", stakeholder_key |-> "SK1",
                    parent_external_node_id |-> PyNone], 1)

Document(element_types, thing_nodes, sources, sinks) ==
    [element_types |-> element_types, thing_nodes |-> thing_nodes,
     sources |-> sources, sinks |-> sinks]

\* Sources or Sinks that differ in their (stakeholder key, external id) pair only
KeyedElements(shapes) ==
    [i \in 1..Len(shapes) |->
        Element(shapes[i].external_id, shapes[i].stakeholder_key, <<<<"a">>>>, <<>>)]

\* the lists kept fixed while one list varies: empty, one entry, one entry twice
FixedLists == {<<>>, <<ET1>>, <<ET1, ET1>>}

\* Sources or Sinks that differ in their attachment list only
IdLists == {<<>>} \cup {<<ids>> : ids \in SeqsUpTo({"a", "b"}, MaxIds)}

AttachedElements(prefix, idl) ==
    [i \in 1..Len(idl) |-> Element(prefix \o ToString(i), "SK1", idl[i], <<>>)]

\* passthrough filter lists
Names == {<<>>} \cup {<<s>> : s \in SeqsUpTo(Chars, MaxNameLen)}

\* filters that vary their name, and filters that vary their type and flag
FilterShapes ==
    [name : Names, type : {<<"free_text">>}, required : {<<TRUE>>}]
        \cup [name : {<<>>, <<<<"a">>>>},
              type : {<<>>, <<"free_text">>, <<"invalid_type">>},
              required : {<<>>, <<TRUE>>, <<FALSE>>}]

FilterLists == {<<>>} \cup {<<fl>> : fl \in SeqsUpTo(FilterShapes, MaxFilters)}

(***************************************************************************)
(* State                                                                   *)
(***************************************************************************)
NoOutcome == [kind |-> "none", error |-> NoError, structure |-> NoStructure]

EmptyStore == [element_types |-> {}, thing_nodes |-> {}, sources |-> {}, sinks |-> {}]

NoRequest == [op |-> "none"]

NoResponse == [raised |-> "none"]

NoWiring == [input_wirings |-> <<>>, output_wirings |-> <<>>]

Init ==
    /\ doc = NoStructure
    /\ delete_existing_structure = FALSE
    /\ outcome = NoOutcome
    /\ pc = "idle"
    /\ store = EmptyStore
    /\ before = EmptyStore
    /\ calls = <<>>
    /\ nreq = 0
    /\ request = NoRequest
    /\ response = NoResponse
    /\ held_wiring = NoWiring

(***************************************************************************)
(* Construction of a CompleteStructure from a document                     *)
(***************************************************************************)
Construct(values) ==
    /\ pc = "idle"
    /\ nreq = 0
    /\ doc' = values
    /\ outcome' = CompleteStructure(values)
    /\ pc' = "constructed"
    /\ nreq' = 1
    /\ UNCHANGED <<delete_existing_structure, store, before, calls, request, response,
                   held_wiring>>

\* a document that varies the ThingNode forest
ConstructNodeDoc ==
    /\ pc = "idle"
    /\ \E ets \in {<<>>, <<ET1>>}, NodeShapes \in {LinkNodeShapes, KeyNodeShapes},
          k \in 0..MaxTN :
         \E shapes \in [1..k -> NodeShapes] :
            Construct(Document(ets, ThingNodes(shapes), <<>>, <<>>))

\* a document that varies the (stakeholder key, external id) pairs of one list
ConstructPairDoc ==
    /\ pc = "idle"
    /\ \E varied \in {"element_types", "sources", "sinks"}, fixed1, fixed2 \in FixedLists :
         \E k \in 0..(IF varied = "element_types" THEN MaxET ELSE MaxSS) :
            \E shapes \in [1..k -> ElementTypeShapes] :
               Construct(
                  CASE varied = "element_types" ->
                          Document(shapes, <<RootA>>, KeyedElements(fixed1),
                                   KeyedElements(fixed2))
                    [] varied = "sources" ->
                          Document(fixed1, <<RootA>>, KeyedElements(shapes),
                                   KeyedElements(fixed2))
                    [] varied = "sinks" ->
                          Document(fixed1, <<RootA>>, KeyedElements(fixed2),
                                   KeyedElements(shapes)))

\* a document that varies the attachment lists of its Sources and Sinks: up to
\* MaxSS of the one kind and at most one of the other
ConstructAttachmentDoc ==
    /\ pc = "idle"
    /\ \E ks \in 0..MaxSS, kt \in 0..MaxSS :
         /\ ks <= 1 \/ kt <= 1
         /\ \E srcs \in [1..ks -> IdLists], snks \in [1..kt -> IdLists] :
               Construct(Document(<<ET1>>, <<RootA>>, AttachedElements("src", srcs),
                                  AttachedElements("snk", snks)))

\* a document that varies the passthrough filters of one Source or of one Sink
ConstructFilterDoc ==
    /\ pc = "idle"
    /\ \E pf \in FilterLists, onSource \in BOOLEAN :
         LET element == Element(IF onSource THEN "src1" ELSE "snk1", "SK1", <<<<"a">>>>, pf)
         IN  Construct(Document(<<ET1>>, <<RootA>>,
                                IF onSource THEN <<element>> ELSE <<>>,
                                IF onSource THEN <<>> ELSE <<element>>))

Next ==
    \/ ConstructNodeDoc
    \/ ConstructPairDoc
    \/ ConstructAttachmentDoc
    \/ ConstructFilterDoc

Spec == Init /\ [][Next]_vars

(***************************************************************************)
(* The persisted structure and the administrative update operation         *)
(* (virtual_structure_router.py:41-61).  The request body is constructed   *)
(* as a CompleteStructure before the handler body runs (line 42); the      *)
(* handler calls is_database_empty, delete_structure and                   *)
(* orm_update_structure without suspending in between.                     *)
(***************************************************************************)
KeyOf(e) == <<e.stakeholder_key, e.external_id>>

is_database_empty(db) ==
    /\ db.element_types = {}
    /\ db.thing_nodes = {}
    /\ db.sources = {}
    /\ db.sinks = {}

\* the id under which the store keeps an entity: one id per (stakeholder key,
\* external id) pair of a kind
IdOf(stakeholder_key, external_id) == stakeholder_key \o "/" \o external_id

Id(e) == IdOf(e.stakeholder_key, e.external_id)

IsRoot(node) == node.parent_external_node_id = PyNone

ParentId(node) == IdOf(node.stakeholder_key, node.parent_external_node_id)

ChildrenOf(db, parent_id) ==
    {n \in db.thing_nodes : ~IsRoot(n) /\ ParentId(n) = parent_id}

\* the ThingNodes an entity is attached to
AttachedIds(e) ==
    IF e.thing_node_external_ids = <<>> THEN {}
    ELSE {IdOf(e.stakeholder_key, x) : x \in Range(e.thing_node_external_ids[1])}

\* the ids of the nodes removed by the recursion that starts at the nodes ids
RECURSIVE DeletedBelow(_, _, _)
DeletedBelow(db, ids, depth) ==
    IF depth = 0 THEN ids
    ELSE DeletedBelow(db, ids \cup {Id(c) : c \in UNION {ChildrenOf(db, p) : p \in ids}},
                      depth - 1)

\* an entity without its attachments to the removed nodes
Detach(e, removed) ==
    LET kept(x) == IdOf(e.stakeholder_key, x) \notin removed
    IN  IF e.thing_node_external_ids = <<>> THEN e
        ELSE [e EXCEPT !.thing_node_external_ids = <<SelectSeq(@[1], kept)>>]

\* the orphan sweep: the entities attached to no ThingNode go
Sweep(entities, removed) ==
    {Detach(e, removed) : e \in {x \in entities : AttachedIds(Detach(x, removed)) # {}}}

\* delete(): the trees below every root, children before their parent, the
\* Sources and Sinks left without attachment, and the element types
\* (test_structure_service.py:199-210)
orm_delete_structure(db) ==
    LET removed == DeletedBelow(db, {Id(n) : n \in {r \in db.thing_nodes : IsRoot(r)}},
                                Cardinality(db.thing_nodes))
    IN  [element_types |-> {},
         thing_nodes |-> {n \in db.thing_nodes : Id(n) \notin removed},
         sources |-> Sweep(db.sources, removed),
         sinks |-> Sweep(db.sinks, removed)]

\* the wrapper that never runs the deletion
delete_structure_NotRun(db) == db

delete_structure(db) == orm_delete_structure(db)

Upsert(stored, submitted) ==
    {e \in stored : \A k \in 1..Len(submitted) : KeyOf(e) # KeyOf(submitted[k])}
        \cup Range(submitted)

Merge(db, structure) ==
    [element_types |-> Upsert(db.element_types, structure.element_types),
     thing_nodes |-> Upsert(db.thing_nodes, structure.thing_nodes),
     sources |-> Upsert(db.sources, structure.sources),
     sinks |-> Upsert(db.sinks, structure.sinks)]

\* the uniqueness the store keeps beyond the primary keys: the name of an element
\* type is unique over all stakeholder keys (test_structure_service.py:622-632)
UniquenessViolation(db) ==
    \E e1, e2 \in db.element_types : KeyOf(e1) # KeyOf(e2) /\ e1.name = e2.name

StorageFaults == {"none", "DBIntegrityError", "DBUpdateError"}

\* the failures of the storage layer during one request of the update operation
RequestFaults ==
    [delete_structure : {"none", "DBIntegrityError"}, orm_update_structure : StorageFaults]

\* one transaction: it commits the merged structure, or it raises and leaves the
\* store as it was.  fault is a failure of the storage layer during the call.
orm_update_structure(db, structure, fault) ==
    IF fault # "none" THEN [raised |-> fault, db |-> db]
    ELSE IF UniquenessViolation(Merge(db, structure))
    THEN [raised |-> "DBIntegrityError", db |-> db]
    ELSE [raised |-> "none", db |-> Merge(db, structure)]

\* the response of the update operation to an exception of orm_update_structure
StatusOf(raised) ==
    CASE raised = "none" -> 204
      [] raised = "DBNotFoundError" -> 404
      [] OTHER -> 500

\* the handler validating nothing before it deletes
update_structure_endpoint_DeleteFirst(values, flag, fault) ==
    LET new_structure == CompleteStructure(values)
        deletes == flag /\ ~is_database_empty(store)
        emptied == IF deletes THEN delete_structure(store) ELSE store
        updated == orm_update_structure(emptied, new_structure.structure,
                                        fault.orm_update_structure)
    IN  /\ nreq < MaxRequests
        /\ doc' = values
        /\ delete_existing_structure' = flag
        /\ outcome' = new_structure
        /\ nreq' = nreq + 1
        /\ pc' = "idle"
        /\ request' = [op |-> "update_structure_endpoint"]
        /\ before' = store
        /\ UNCHANGED held_wiring
        /\ IF new_structure.kind = "accepted" /\ deletes /\ fault.delete_structure # "none"
           THEN /\ store' = store
                /\ calls' = <<"delete_structure">>
                /\ response' = [raised |-> fault.delete_structure, status |-> 500]
           ELSE IF new_structure.kind = "accepted"
           THEN /\ store' = updated.db
                /\ calls' = (IF deletes THEN <<"delete_structure">> ELSE <<>>)
                                \o <<"orm_update_structure">>
                /\ response' = [raised |-> updated.raised,
                                status |-> StatusOf(updated.raised)]
           ELSE /\ store' = emptied
                /\ calls' = (IF deletes THEN <<"delete_structure">> ELSE <<>>)
                /\ response' = [raised |-> new_structure.kind, status |-> 422]

update_structure_endpoint(values, flag, fault) ==
    LET new_structure == CompleteStructure(values)
        deletes == flag /\ ~is_database_empty(store)
        emptied == IF deletes THEN delete_structure(store) ELSE store
        updated == orm_update_structure(emptied, new_structure.structure,
                                        fault.orm_update_structure)
    IN  /\ nreq < MaxRequests
        /\ doc' = values
        /\ delete_existing_structure' = flag
        /\ outcome' = new_structure
        /\ nreq' = nreq + 1
        /\ pc' = "idle"
        /\ request' = [op |-> "update_structure_endpoint"]
        /\ before' = store
        /\ UNCHANGED held_wiring
        /\ IF new_structure.kind = "accepted" /\ deletes /\ fault.delete_structure # "none"
           THEN /\ store' = store
                /\ calls' = <<"delete_structure">>
                /\ response' = [raised |-> fault.delete_structure, status |-> 500]
           ELSE IF new_structure.kind = "accepted"
           THEN /\ store' = updated.db
                /\ calls' = (IF deletes THEN <<"delete_structure">> ELSE <<>>)
                                \o <<"orm_update_structure">>
                /\ response' = [raised |-> updated.raised,
                                status |-> StatusOf(updated.raised)]
           ELSE /\ store' = store
                /\ calls' = <<>>
                /\ response' = [raised |-> new_structure.kind, status |-> 422]

\* documents submitted to the update operation
Node(external_id, stakeholder_key, parent, i) ==
    ThingNode([external_id |-> external_id, stakeholder_key |-> stakeholder_key,
               parent_external_node_id |-> parent], i)

Attached(external_id, stakeholder_key, ids) ==
    Element(external_id, stakeholder_key, <<ids>>, <<>>)

EndpointDocs ==
    {Document(<<ET1>>, <<RootA, Node("b", "SK1", "a", 2)>>,
              <<Attached("src1", "SK1", <<"a">>)>>, <<>>),
     Document(<<ET2>>, <<Node("b", "SK2", PyNone, 1)>>, <<>>,
              <<Attached("snk1", "SK2", <<"b">>)>>),
     Document(<<ET1>>, <<Node("a", "SK1", "b", 1), Node("b", "SK1", "a", 2)>>, <<>>, <<>>),
     Document(<<ET1>>, <<RootA, Node("b", "SK2", "a", 2)>>, <<>>, <<>>),
     Document(<<ET1>>, <<Node("a", "SK1", "b", 1)>>, <<>>, <<>>),
     Document(<<ET1, ET1>>, <<RootA>>, <<>>, <<>>),
     Document(<<ET1>>, <<RootA>>, <<Attached("src1", "SK1", <<"b">>)>>, <<>>),
     Document(<<ET1>>, <<RootA>>, <<>>, <<Attached("snk1", "SK1", <<"b">>)>>),
     Document(<<ET1>>, <<RootA>>,
              <<Element("src1", "SK1", <<<<"a">>>>, <<<<EmptyFilter>>>>)>>, <<>>),
     Document(<<ET1, [ET2 EXCEPT !.name = "T"]>>, <<RootA>>, <<>>, <<>>),
     Document(<<>>, <<RootA>>, <<>>, <<>>)}

NextEndpoint ==
    /\ pc = "idle"
    /\ \E values \in EndpointDocs, flag \in BOOLEAN, fault \in RequestFaults :
          update_structure_endpoint(values, flag, fault)

SpecEndpoint == Init /\ [][NextEndpoint]_vars

(***************************************************************************)
(* Two update requests served at once, each by a worker of its own.  The   *)
(* handler makes three calls of the store, is_database_empty,              *)
(* delete_structure and orm_update_structure                               *)
(* (virtual_structure_router.py:46-54), each a transaction of its own, and *)
(* holds no lock across them: a step of the other worker may fall between  *)
(* any two of them.                                                        *)
(***************************************************************************)
Workers == {1, 2}

ConcurrentDocs ==
    {Document(<<ET1>>, <<RootA, Node("b", "SK1", "a", 2)>>,
              <<Attached("src1", "SK1", <<"a">>)>>, <<>>),
     Document(<<ET2>>, <<Node("b", "SK2", PyNone, 1)>>, <<>>,
              <<Attached("snk1", "SK2", <<"b">>)>>),
     Document(<<ET1>>, <<RootA>>, <<>>, <<>>)}

\* what a store holds after the structure of a document was put into an empty one
StoreOf(values) ==
    orm_update_structure(EmptyStore, CompleteStructure(values).structure, "none").db

Serving == pc = "serving"

Worker(w) == request.workers[w]

\* both requests arrive, each with delete_existing_structure = true
ReceiveRequests ==
    /\ pc = "idle"
    /\ nreq < MaxRequests
    /\ \E values1, values2 \in ConcurrentDocs :
          /\ values1 # values2
          /\ request' = [op |-> "update_structure_endpoint",
                         workers |-> [w \in Workers |->
                            [new_structure |-> IF w = 1 THEN values1 ELSE values2,
                             delete_existing_structure |-> TRUE,
                             at |-> "is_database_empty",
                             status |-> 0]]]
    /\ nreq' = nreq + 1
    /\ pc' = "serving"
    /\ before' = store
    /\ calls' = <<>>
    /\ response' = NoResponse
    /\ UNCHANGED <<doc, delete_existing_structure, outcome, store, held_wiring>>

\* a worker took a step of the handler
Step(w, at, status) ==
    /\ request' = [request EXCEPT !.workers[w].at = at, !.workers[w].status = status]
    /\ pc' = IF at = "done" /\ \A v \in Workers \ {w} : Worker(v).at = "done"
             THEN "idle" ELSE "serving"
    /\ UNCHANGED <<doc, delete_existing_structure, outcome, before, nreq, response,
                   held_wiring>>

\* line 46: if delete_existing_structure and not is_database_empty()
CheckEmpty(w) ==
    /\ Serving
    /\ Worker(w).at = "is_database_empty"
    /\ Step(w, IF Worker(w).delete_existing_structure /\ ~is_database_empty(store)
               THEN "delete_structure" ELSE "orm_update_structure", 0)
    /\ calls' = Append(calls, <<w, "is_database_empty">>)
    /\ UNCHANGED store

\* line 49: delete_structure()
Delete(w) ==
    /\ Serving
    /\ Worker(w).at = "delete_structure"
    /\ Step(w, "orm_update_structure", 0)
    /\ calls' = Append(calls, <<w, "delete_structure">>)
    /\ store' = delete_structure(store)

\* line 54: orm_update_structure(new_structure)
Insert(w) ==
    /\ Serving
    /\ Worker(w).at = "orm_update_structure"
    /\ LET updated == orm_update_structure(
                          store, CompleteStructure(Worker(w).new_structure).structure,
                          "none")
       IN  /\ Step(w, "done", StatusOf(updated.raised))
           /\ store' = updated.db
    /\ calls' = Append(calls, <<w, "orm_update_structure">>)

NextConcurrent ==
    \/ ReceiveRequests
    \/ \E w \in Workers : CheckEmpty(w)
    \/ \E w \in Workers : Delete(w)
    \/ \E w \in Workers : Insert(w)

SpecConcurrent == Init /\ [][NextConcurrent]_vars

(***************************************************************************)
(* The two traversals of the construction, statement by statement          *)
(* (models.py:420-525).  request holds the local variables of the          *)
(* validator that runs: root_nodes still to be taken, stack and visited of *)
(* the search, the index of the loop at line 522 and the frames of the     *)
(* recursive calls of visit().  The validators before them have returned,  *)
(* the validator and the field validation after them are one step.         *)
(***************************************************************************)
Validating == pc = "validating"

\* ThingNodes whose parent links close cycles and of which two share the
\* external id "b" under different stakeholder keys
TraversalNodeShapes ==
    {shape \in KeyNodeShapes : shape.external_id = "a" => shape.stakeholder_key = "SK1"}

TraversalDocs ==
    {Document(<<ET1>>, ThingNodes(shapes), <<>>, <<>>) :
        shapes \in UNION {[1..k -> TraversalNodeShapes] : k \in 0..MaxTN}}

\* the validators that run before check_stakeholder_key_consistency (models.py:360-417)
ReachesTraversals(values) ==
    \A n \in 1..3 : RunValidator(PreRootValidators[n], values) = NoError

Locals(at, root_nodes, expected_stakeholder_key, stack, visited, i, frames, processed) ==
    [op |-> "CompleteStructure", at |-> at, root_nodes |-> root_nodes,
     expected_stakeholder_key |-> expected_stakeholder_key, stack |-> stack,
     visited |-> visited, i |-> i, frames |-> frames, processed |-> processed]

Goto(locals) ==
    /\ request' = locals
    /\ UNCHANGED <<doc, delete_existing_structure, outcome, pc, store, before, calls,
                   nreq, response, held_wiring>>

Finish(result) ==
    /\ outcome' = result
    /\ pc' = "constructed"
    /\ UNCHANGED <<doc, delete_existing_structure, store, before, calls, nreq, request,
                   response, held_wiring>>

\* models.py:424-432
BeginConstruction ==
    /\ pc = "idle"
    /\ nreq = 0
    /\ \E values \in TraversalDocs :
          /\ ReachesTraversals(values)
          /\ doc' = values
          /\ request' = Locals("check_stakeholder_key_consistency",
                               SelectSeq(values.thing_nodes,
                                         LAMBDA node : node.parent_external_node_id = PyNone),
                               NA, <<>>, {}, 0, <<>>, <<>>)
    /\ pc' = "validating"
    /\ nreq' = 1
    /\ UNCHANGED <<delete_existing_structure, outcome, store, before, calls, response,
                   held_wiring>>

\* models.py:435-445: the next root node, its own stack and visited set
NextRootNode ==
    /\ Validating
    /\ request.at = "check_stakeholder_key_consistency"
    /\ request.stack = <<>>
    /\ request.root_nodes # <<>>
    /\ Goto(Locals(request.at, Tail(request.root_nodes),
                   Head(request.root_nodes).stakeholder_key,
                   <<Head(request.root_nodes)>>, {}, 0, <<>>, <<>>))

\* models.py:448-482: one turn of the while loop
PopStack ==
    /\ Validating
    /\ request.at = "check_stakeholder_key_consistency"
    /\ request.stack # <<>>
    /\ LET current_node == request.stack[Len(request.stack)]
           popped == SubSeq(request.stack, 1, Len(request.stack) - 1)
           current_external_id == current_node.external_id
       IN  IF current_external_id \in request.visited
           THEN Goto([request EXCEPT !.stack = popped])
           ELSE IF current_node.stakeholder_key # request.expected_stakeholder_key
           THEN Finish(Rejected(Raise("ValueError", "check_stakeholder_key_consistency",
                                      current_external_id,
                                      request.expected_stakeholder_key,
                                      current_node.stakeholder_key)))
           ELSE Goto([request EXCEPT
                         !.stack = popped \o ChildNodes(doc.thing_nodes,
                                                        current_external_id),
                         !.visited = @ \cup {current_external_id},
                         !.processed = Append(@, current_external_id)])

\* models.py:484 and 487-498: the roots are exhausted, the next validator starts
EndOfRoots ==
    /\ Validating
    /\ request.at = "check_stakeholder_key_consistency"
    /\ request.stack = <<>>
    /\ request.root_nodes = <<>>
    /\ Goto(Locals("check_for_circular_reference", <<>>, NA, <<>>, {}, 1, <<>>, <<>>))

\* the frame of a call of visit(node) that has not run yet
Frame(node) == [node |-> node, at |-> "entry"]

\* models.py:522-525: the loop over the nodes calls visit() or goes on
WalkNextNode ==
    /\ Validating
    /\ request.at = "check_for_circular_reference"
    /\ request.frames = <<>>
    /\ request.i <= Len(doc.thing_nodes)
    /\ IF doc.thing_nodes[request.i].external_id \notin request.visited
       THEN Goto([request EXCEPT !.i = @ + 1,
                                 !.frames = <<Frame(doc.thing_nodes[request.i])>>,
                                 !.processed = <<>>])
       ELSE Goto([request EXCEPT !.i = @ + 1])

\* a call of visit() that goes on when its node is in visited already
EnterVisit_FollowsRepeated ==
    /\ Validating
    /\ request.at = "check_for_circular_reference"
    /\ request.frames # <<>>
    /\ Len(request.frames) <= Len(doc.thing_nodes) + 1
    /\ request.frames[Len(request.frames)].at = "entry"
    /\ LET node == request.frames[Len(request.frames)].node
           node_external_id == node.external_id
           parent_external_id == node.parent_external_node_id
           nodes_by_external_id ==
               {doc.thing_nodes[k].external_id : k \in 1..Len(doc.thing_nodes)}
           called == [request.frames EXCEPT ![Len(request.frames)].at = "called"]
       IN  Goto([request EXCEPT
                    !.visited = @ \cup {node_external_id},
                    !.processed = Append(@, node_external_id),
                    !.frames =
                        IF Truthy(parent_external_id)
                               /\ parent_external_id \in nodes_by_external_id
                        THEN Append(called,
                                    Frame(NodeByExternalId(doc.thing_nodes,
                                                           parent_external_id)))
                        ELSE called])

\* models.py:501-516: a call of visit() up to its recursive call.  The depth
\* of the recursion is capped one above the number of nodes
EnterVisit ==
    /\ Validating
    /\ request.at = "check_for_circular_reference"
    /\ request.frames # <<>>
    /\ Len(request.frames) <= Len(doc.thing_nodes) + 1
    /\ request.frames[Len(request.frames)].at = "entry"
    /\ LET node == request.frames[Len(request.frames)].node
           node_external_id == node.external_id
           parent_external_id == node.parent_external_node_id
           nodes_by_external_id ==
               {doc.thing_nodes[k].external_id : k \in 1..Len(doc.thing_nodes)}
           called == [request.frames EXCEPT ![Len(request.frames)].at = "called"]
       IN  IF node_external_id \in request.visited
           THEN Finish(Rejected(Raise("ValueError", "check_for_circular_reference",
                                      node_external_id, NA, NA)))
           ELSE Goto([request EXCEPT
                         !.visited = @ \cup {node_external_id},
                         !.processed = Append(@, node_external_id),
                         !.frames =
                             IF Truthy(parent_external_id)
                                    /\ parent_external_id \in nodes_by_external_id
                             THEN Append(called,
                                         Frame(NodeByExternalId(doc.thing_nodes,
                                                                parent_external_id)))
                             ELSE called])

\* models.py:519: the call returns and takes its node out of visited
ReturnVisit ==
    /\ Validating
    /\ request.at = "check_for_circular_reference"
    /\ request.frames # <<>>
    /\ request.frames[Len(request.frames)].at = "called"
    /\ Goto([request EXCEPT
                !.visited = @ \ {request.frames[Len(request.frames)].node.external_id},
                !.frames = SubSeq(@, 1, Len(@) - 1)])

\* models.py:528 and the rest of the construction
EndOfNodes ==
    /\ Validating
    /\ request.at = "check_for_circular_reference"
    /\ request.frames = <<>>
    /\ request.i > Len(doc.thing_nodes)
    /\ Finish(CompleteStructure(doc))

NextTraversal ==
    \/ BeginConstruction
    \/ NextRootNode
    \/ PopStack
    \/ EndOfRoots
    \/ WalkNextNode
    \/ EnterVisit
    \/ ReturnVisit
    \/ EndOfNodes

SpecTraversal == Init /\ [][NextTraversal]_vars

\* the interpreter runs the construction it has begun to its end
FairTraversal == SpecTraversal /\ WF_vars(NextTraversal)

(***************************************************************************)
(* The Sources and Sinks that the virtual structure adapter hands out      *)
(* (adapters/virtual_structure_adapter/models.py:28-86): the passthrough   *)
(* filters of a Source or Sink of the structure become a dict by name.     *)
(***************************************************************************)
\* replace_whitespace (models.py:41-43 and 72-74): str.strip(), then
\* str.replace(" ", "_")
replace_whitespace(filter_name) ==
    [i \in 1..Len(Strip(filter_name)) |->
        IF Strip(filter_name)[i] = " " THEN "_" ELSE Strip(filter_name)[i]]

\* the dict comprehension of lines 52 and 83: of two filters with one key the
\* later stays; an empty list gives the empty dict
FiltersByKey(passthrough_filters) ==
    [key \in {replace_whitespace(passthrough_filters[k].name) :
                 k \in 1..Len(passthrough_filters)} |->
        passthrough_filters[
            CHOOSE k \in 1..Len(passthrough_filters) :
                /\ replace_whitespace(passthrough_filters[k].name) = key
                /\ \A j \in (k + 1)..Len(passthrough_filters) :
                      replace_whitespace(passthrough_filters[j].name) # key]]

\* VirtualStructureAdapterSource.from_structure_service_model and
\* VirtualStructureAdapterSink.from_structure_service_model
from_structure_service_model(element) ==
    [id |-> element.external_id,
     filters |-> FiltersByKey(PassthroughFilters(element))]

\* the filters a Source or Sink of a structure can hold: the constructor built them
StoredFilters ==
    {FilterObject(v) : v \in {shape \in FilterShapes : FilterError(shape) = "none"}}

\* Sources and Sinks of a structure with up to MaxFilters + 1 passthrough filters
AdapterElements(external_id) ==
    {[external_id |-> external_id, stakeholder_key |-> "SK1",
      thing_node_external_ids |-> <<<<"a">>>>,
      passthrough_filters |-> <<filters>>] :
        filters \in SeqsUpTo(StoredFilters, MaxFilters + 1)}

HandOut(op, element) ==
    /\ pc = "idle"
    /\ request' = [op |-> op, args |-> element]
    /\ response' = [raised |-> "none", value |-> from_structure_service_model(element)]
    /\ pc' = "answered"
    /\ UNCHANGED <<doc, delete_existing_structure, outcome, store, before, calls, nreq,
                   held_wiring>>

SourceFromStructureServiceModel ==
    /\ pc = "idle"
    /\ \E source \in AdapterElements("src1") :
          HandOut("VirtualStructureAdapterSource.from_structure_service_model", source)

SinkFromStructureServiceModel ==
    /\ pc = "idle"
    /\ \E sink \in AdapterElements("snk1") :
          HandOut("VirtualStructureAdapterSink.from_structure_service_model", sink)

NextAdapterModels ==
    \/ SourceFromStructureServiceModel
    \/ SinkFromStructureServiceModel

SpecAdapterModels == Init /\ [][NextAdapterModels]_vars

(***************************************************************************)
(* The persistence service (structure_service.py).  update_structure,      *)
(* delete_structure, is_database_empty and get_children wrap functions of  *)
(* the store; the lookups read the store themselves.  A caller hands       *)
(* update_structure a CompleteStructure, so only an accepted document      *)
(* reaches it.                                                             *)
(***************************************************************************)
Kinds == {"thing_nodes", "sources", "sinks"}

ReturnsNone == [raised |-> "none", value |-> PyNone]

Returns(value) == [raised |-> "none", value |-> value]

Raises(exc) == [raised |-> exc, value |-> PyNone]

\* get_single_thingnode_from_db, get_single_source_from_db, get_single_sink_from_db
get_single_from_db(db, kind, id) ==
    IF \E e \in db[kind] : Id(e) = id
    THEN Returns(CHOOSE e \in db[kind] : Id(e) = id)
    ELSE Raises("DBNotFoundError")

\* a collection lookup that leaves out the ids it does not find
get_collection_from_db_SkipAbsent(db, kind, ids) ==
    LET found == {id \in Range(ids) : get_single_from_db(db, kind, id).raised = "none"}
    IN  Returns([id \in found |-> get_single_from_db(db, kind, id).value])

\* get_collection_of_thingnodes_from_db, get_collection_of_sources_from_db,
\* get_collection_of_sinks_from_db: the dict comprehension looks the ids up in
\* list order and the first lookup that raises ends it
get_collection_from_db(db, kind, ids) ==
    LET absent(k) == get_single_from_db(db, kind, ids[k]).raised # "none"
    IN  IF FirstIdx(ids, absent) # 0
        THEN get_single_from_db(db, kind, ids[FirstIdx(ids, absent)])
        ELSE Returns([id \in Range(ids) |-> get_single_from_db(db, kind, id).value])

\* get_all_thing_nodes_from_db, get_all_sources_from_db, get_all_sinks_from_db
get_all_from_db(db, kind) == Returns(db[kind])

\* the wrapper answering for a failed upsert as for a successful one
update_structure_Swallow(db, complete_structure, fault) ==
    [raised |-> "none", db |-> orm_update_structure(db, complete_structure, fault).db]

update_structure(db, complete_structure, fault) ==
    orm_update_structure(db, complete_structure, fault)

\* getChildren: the root query returns the nodes without parent only; for a
\* parent id it raises NotFound when it finds no child, no Source and no Sink
orm_get_children(db, parent_id) ==
    IF parent_id = <<>>
    THEN Returns([children |-> {n \in db.thing_nodes : IsRoot(n)},
                  sources |-> {}, sinks |-> {}])
    ELSE LET children == ChildrenOf(db, parent_id[1])
             sources == {e \in db.sources : parent_id[1] \in AttachedIds(e)}
             sinks == {e \in db.sinks : parent_id[1] \in AttachedIds(e)}
         IN  IF children = {} /\ sources = {} /\ sinks = {}
             THEN Raises("DBNotFoundError")
             ELSE Returns([children |-> children, sources |-> sources, sinks |-> sinks])

\* the wrapper asking for the roots whatever its argument
get_children_OfRoot(db, parent_id) == orm_get_children(db, <<>>)

get_children(db, parent_id) == orm_get_children(db, parent_id)

\* structures handed to update_structure
StoreDocs ==
    {Document(<<ET1>>, <<RootA, Node("b", "SK1", "a", 2), Node("c", "SK1", "a", 3)>>,
              <<Attached("src1", "SK1", <<"a">>)>>, <<Attached("snk1", "SK1", <<"b">>)>>),
     Document(<<ET2>>, <<Node("b", "SK2", PyNone, 1)>>, <<>>,
              <<Attached("snk1", "SK2", <<"b">>)>>),
     Document(<<[ET2 EXCEPT !.name = "T"]>>, <<Node("b", "SK2", PyNone, 1)>>, <<>>, <<>>),
     Document(<<ET1>>, <<RootA, Node("b", "SK1", "a", 2)>>,
              <<Attached("src1", "SK1", <<"a", "b">>), Attached("src2", "SK1", <<"b">>)>>,
              <<>>),
     Document(<<ET1, [ET2 EXCEPT !.name = "T"]>>, <<RootA>>, <<>>, <<>>),
     Document(<<ET1, ET1>>, <<RootA>>, <<>>, <<>>)}

\* ids asked of the lookups, of stored and of unknown entities
LookupIds == {"SK1/a", "SK1/b", "SK1/c", "SK1/src1", "SK2/snk1"}

\* a lookup reads the store and changes nothing: the model takes the next call
\* from the state before the lookup
Lookup(op, args, result) ==
    /\ request' = [op |-> op, args |-> args]
    /\ response' = result
    /\ before' = store
    /\ pc' = "answered"
    /\ UNCHANGED <<doc, delete_existing_structure, outcome, store, calls, nreq,
                   held_wiring>>

Mutation(op, fault, result) ==
    /\ nreq < MaxRequests
    /\ nreq' = nreq + 1
    /\ request' = [op |-> op, args |-> <<>>, fault |-> fault]
    /\ response' = [raised |-> result.raised, value |-> PyNone]
    /\ store' = result.db
    /\ before' = store
    /\ calls' = <<op>>
    /\ UNCHANGED <<delete_existing_structure, pc, held_wiring>>

UpdateStructure ==
    /\ pc = "idle"
    /\ \E values \in StoreDocs, fault \in StorageFaults :
          /\ CompleteStructure(values).kind = "accepted"
          /\ doc' = values
          /\ outcome' = CompleteStructure(values)
          /\ Mutation("update_structure", fault,
                      update_structure(store, CompleteStructure(values).structure, fault))

DeleteStructure ==
    /\ pc = "idle"
    /\ \E fault \in {"none", "DBIntegrityError"} :
          /\ UNCHANGED <<doc, outcome>>
          /\ Mutation("delete_structure", fault,
                      IF fault = "none"
                      THEN [raised |-> "none", db |-> delete_structure(store)]
                      ELSE [raised |-> fault, db |-> store])

IsDatabaseEmpty ==
    /\ pc = "idle"
    /\ Lookup("is_database_empty", <<>>, Returns(is_database_empty(store)))

GetSingle ==
    /\ pc = "idle"
    /\ \E kind \in Kinds, id \in LookupIds :
          Lookup("get_single_from_db", <<kind, id>>, get_single_from_db(store, kind, id))

GetCollection ==
    /\ pc = "idle"
    /\ \E kind \in Kinds, ids \in SeqsUpTo(LookupIds, MaxLookup) :
          Lookup("get_collection_from_db", <<kind, ids>>,
                 get_collection_from_db(store, kind, ids))

GetAll ==
    /\ pc = "idle"
    /\ \E kind \in Kinds : Lookup("get_all_from_db", <<kind>>, get_all_from_db(store, kind))

GetChildren ==
    /\ pc = "idle"
    /\ \E parent_id \in {<<>>} \cup {<<id>> : id \in LookupIds} :
          Lookup("get_children", parent_id, get_children(store, parent_id))

NextStore ==
    \/ UpdateStructure
    \/ DeleteStructure
    \/ IsDatabaseEmpty
    \/ GetSingle
    \/ GetCollection
    \/ GetAll
    \/ GetChildren

SpecStore == Init /\ [][NextStore]_vars

(***************************************************************************)
(* Wirings.  A WorkflowWiring holds the lists input_wirings and            *)
(* output_wirings; filters and preset_filters are dicts, modelled as       *)
(* functions of their keys.  The Sources and Sinks a virtual entry         *)
(* references are read from the persistence service.                       *)
(***************************************************************************)
VirtualAdapter == "virtual-structure-adapter"

EmptyMap == [k \in {} |-> ""]

OneFilter(key, value) == [k \in {key} |-> value]

\* the dict union a | b: on a key of both the value of b
MergeMaps(a, b) ==
    [k \in DOMAIN a \cup DOMAIN b |-> IF k \in DOMAIN b THEN b[k] ELSE a[k]]

InputWiring(i, adapter_id, ref_id, type, filters, use_default_value) ==
    [workflow_input_name |-> "in" \o ToString(i), adapter_id |-> adapter_id,
     ref_id |-> ref_id, ref_id_type |-> PyNone, ref_key |-> PyNone, type |-> type,
     filters |-> filters,
     use_default_value |-> IF use_default_value = <<>> THEN FALSE
                           ELSE use_default_value[1]]

OutputWiring(i, adapter_id, ref_id, type, filters) ==
    [workflow_output_name |-> "out" \o ToString(i), adapter_id |-> adapter_id,
     ref_id |-> ref_id, ref_id_type |-> PyNone, ref_key |-> PyNone, type |-> type,
     filters |-> filters]

\* a stored Source or Sink with the fields the resolution reads
StoredSource(external_id, type, adapter_key, source_id, ref_id, ref_key, preset_filters) ==
    [external_id |-> external_id, stakeholder_key |-> "SK1",
     thing_node_external_ids |-> <<<<"a">>>>, passthrough_filters |-> <<>>,
     type |-> type, adapter_key |-> adapter_key, source_id |-> source_id,
     ref_id |-> ref_id, ref_key |-> ref_key, preset_filters |-> preset_filters]

StoredSink(external_id, type, adapter_key, sink_id, ref_id, ref_key, preset_filters) ==
    [external_id |-> external_id, stakeholder_key |-> "SK1",
     thing_node_external_ids |-> <<<<"a">>>>, passthrough_filters |-> <<>>,
     type |-> type, adapter_key |-> adapter_key, sink_id |-> sink_id,
     ref_id |-> ref_id, ref_key |-> ref_key, preset_filters |-> preset_filters]

\* the structure the store holds when wirings are resolved
WiringStore ==
    [element_types |-> {ET1},
     thing_nodes |-> {RootA},
     sources |->
        {StoredSource("src1", "multitsframe", "sql-adapter", "sql-source-1", "node-1",
                      "key-1", OneFilter("unit", "kWh")),
         StoredSource("src2", "metadata(any)", "rest-adapter", "rest-source-2", "node-2",
                      "key-2", EmptyMap)},
     sinks |->
        {StoredSink("snk1", "multitsframe", "sql-adapter", "sql-sink-1", "node-1",
                    "key-3", OneFilter("unit", "kWh"))}]

IsSource(source_or_sink) == "source_id" \in DOMAIN source_or_sink

\* update_wirings (resolve_wirings.py:10-40)
update_wirings(wiring, source_or_sink) ==
    LET referenced ==
            IF wiring.type = "metadata(any)"
            THEN [wiring EXCEPT !.adapter_id = source_or_sink.adapter_key,
                                !.ref_id = source_or_sink.ref_id,
                                !.ref_key = source_or_sink.ref_key,
                                !.ref_id_type = "THINGNODE"]
            ELSE [wiring EXCEPT !.adapter_id = source_or_sink.adapter_key,
                                !.ref_id = IF IsSource(source_or_sink)
                                           THEN source_or_sink.source_id
                                           ELSE source_or_sink.sink_id]
    IN  [referenced EXCEPT
            !.filters = MergeMaps(wiring.filters, source_or_sink.preset_filters)]

\* get_enumerated_ids_of_vst_sources_or_sinks: the positions of the virtual
\* entries of a list, in list order; their reference ids are read at these
VirtualIndices(wirings) ==
    LET virtual(i) == wirings[i].adapter_id = VirtualAdapter
        RECURSIVE From(_)
        From(i) == IF i > Len(wirings) THEN <<>>
                   ELSE (IF virtual(i) THEN <<i>> ELSE <<>>) \o From(i + 1)
    IN  From(1)

RefIds(wirings, indices) == [k \in 1..Len(indices) |-> wirings[indices[k]].ref_id]

\* the values of the dict a collection lookup returns, in the order of its
\* keys: the requested ids in the order of their first occurrence
DictValues(ids, dict) ==
    LET first(k) == \A j \in 1..(k - 1) : ids[j] # ids[k]
        RECURSIVE From(_)
        From(k) == IF k > Len(ids) THEN <<>>
                   ELSE (IF first(k) THEN <<dict[ids[k]]>> ELSE <<>>) \o From(k + 1)
    IN  From(1)

\* the loop over zip(indices, objects, strict=True): the pairs are used one
\* after the other, a list that ends before the other raises ValueError after
\* the pairs before it were used
RECURSIVE UpdateZipped(_, _, _, _)
UpdateZipped(wirings, indices, objects, k) ==
    IF k > Len(indices) \/ k > Len(objects) THEN wirings
    ELSE UpdateZipped([wirings EXCEPT
                          ![indices[k]] = update_wirings(wirings[indices[k]], objects[k])],
                      indices, objects, k + 1)

\* get_virtual_sources_and_sinks_from_structure_service: one collection lookup
\* per direction
get_virtual_sources_and_sinks_from_structure_service(db, input_ref_ids, output_ref_ids) ==
    LET virtual_sources == get_collection_from_db(db, "sources", input_ref_ids)
        virtual_sinks == get_collection_from_db(db, "sinks", output_ref_ids)
    IN  IF virtual_sources.raised # "none" THEN Raises(virtual_sources.raised)
        ELSE IF virtual_sinks.raised # "none" THEN Raises(virtual_sinks.raised)
        ELSE Returns([virtual_sources |-> DictValues(input_ref_ids, virtual_sources.value),
                      virtual_sinks |-> DictValues(output_ref_ids, virtual_sinks.value)])

Resolved(raised, workflow_wiring, queried) ==
    [raised |-> raised, value |-> workflow_wiring, queried |-> queried]

\* the resolution that asks the persistence service whatever the wiring holds
resolve_virtual_structure_wirings_AlwaysAsks(db, workflow_wiring) ==
    Resolved("none", workflow_wiring, TRUE)

\* resolve_virtual_structure_wirings (resolve_wirings.py:44-78); the wiring is
\* rewritten in place, so the entries rewritten before an exception stay
resolve_virtual_structure_wirings(db, workflow_wiring) ==
    LET input_indices == VirtualIndices(workflow_wiring.input_wirings)
        input_ref_ids == RefIds(workflow_wiring.input_wirings, input_indices)
        output_indices == VirtualIndices(workflow_wiring.output_wirings)
        output_ref_ids == RefIds(workflow_wiring.output_wirings, output_indices)
        fetched == get_virtual_sources_and_sinks_from_structure_service(
                       db, input_ref_ids, output_ref_ids)
        inputs == UpdateZipped(workflow_wiring.input_wirings, input_indices,
                               fetched.value.virtual_sources, 1)
        outputs == UpdateZipped(workflow_wiring.output_wirings, output_indices,
                                fetched.value.virtual_sinks, 1)
    IN  IF input_ref_ids = <<>> /\ output_ref_ids = <<>>
        THEN Resolved("none", workflow_wiring, FALSE)
        ELSE IF fetched.raised # "none"
        THEN Resolved(fetched.raised, workflow_wiring, TRUE)
        ELSE IF Len(fetched.value.virtual_sources) # Len(input_indices)
        THEN Resolved("ValueError", [workflow_wiring EXCEPT !.input_wirings = inputs], TRUE)
        ELSE IF Len(fetched.value.virtual_sinks) # Len(output_indices)
        THEN Resolved("ValueError",
                      [input_wirings |-> inputs, output_wirings |-> outputs], TRUE)
        ELSE Resolved("none", [input_wirings |-> inputs, output_wirings |-> outputs], TRUE)

\* the wiring a Source or Sink stands for
ActualWiring(source_or_sink) ==
    LET metadata == source_or_sink.type = "metadata(any)"
    IN  [workflow_input_name |-> PyNone,
         adapter_id |-> source_or_sink.adapter_key,
         ref_id |-> IF metadata THEN source_or_sink.ref_id
                    ELSE IF IsSource(source_or_sink) THEN source_or_sink.source_id
                    ELSE source_or_sink.sink_id,
         ref_id_type |-> IF metadata THEN "THINGNODE" ELSE PyNone,
         ref_key |-> IF metadata THEN source_or_sink.ref_key ELSE PyNone,
         type |-> source_or_sink.type,
         filters |-> source_or_sink.preset_filters,
         use_default_value |-> FALSE]

\* get_actual_sources_and_sinks_for_virtual_sources_and_sinks: the wiring of
\* every referenced Source or Sink, by reference id
get_actual_sources_and_sinks_for_virtual_sources_and_sinks(db, ref_ids) ==
    LET stored(id) == {e \in db.sources \cup db.sinks : Id(e) = id}
    IN  IF \E k \in 1..Len(ref_ids) : stored(ref_ids[k]) = {}
        THEN Raises("DBNotFoundError")
        ELSE Returns([id \in Range(ref_ids) |->
                         ActualWiring(CHOOSE e \in stored(id) : TRUE)])

\* the loop of resolve_virtual_wirings: two entries with one reference id share
\* one object of actual_wirings
RECURSIVE Renamed(_, _, _, _, _)
Renamed(actual_wirings, input_wirings, indices, ref_ids, k) ==
    IF k > Len(indices) THEN actual_wirings
    ELSE Renamed([actual_wirings EXCEPT
                     ![ref_ids[k]].workflow_input_name =
                         input_wirings[indices[k]].workflow_input_name,
                     ![ref_ids[k]].filters =
                         MergeMaps(@, input_wirings[indices[k]].filters)],
                 input_wirings, indices, ref_ids, k + 1)

\* the entries of the loop of resolve_virtual_wirings stand for the objects of
\* actual_wirings, so they show what the whole loop made of them
RECURSIVE Replaced(_, _, _, _, _)
Replaced(input_wirings, indices, ref_ids, new_wirings, k) ==
    IF k > Len(indices) THEN input_wirings
    ELSE Replaced([input_wirings EXCEPT ![indices[k]] = new_wirings[ref_ids[k]]],
                  indices, ref_ids, new_wirings, k + 1)

\* resolve_virtual_wirings (wiring/__init__.py:20-48)
resolve_virtual_wirings(db, workflow_wiring) ==
    LET input_indices == VirtualIndices(workflow_wiring.input_wirings)
        input_ref_ids == RefIds(workflow_wiring.input_wirings, input_indices)
        output_indices == VirtualIndices(workflow_wiring.output_wirings)
        output_ref_ids == RefIds(workflow_wiring.output_wirings, output_indices)
        fetched == get_actual_sources_and_sinks_for_virtual_sources_and_sinks(
                       db, input_ref_ids \o output_ref_ids)
        new_wirings == Renamed(fetched.value, workflow_wiring.input_wirings,
                               input_indices, input_ref_ids, 1)
    IN  IF fetched.raised # "none" THEN Resolved(fetched.raised, workflow_wiring, TRUE)
        ELSE Resolved("none",
                      [input_wirings |->
                          Replaced(workflow_wiring.input_wirings, input_indices,
                                   input_ref_ids, new_wirings, 1),
                       output_wirings |-> workflow_wiring.output_wirings],
                      TRUE)

(***************************************************************************)
(* Dispatch of the input wirings to the adapters                           *)
(***************************************************************************)
FilteredSource(input_wiring) ==
    [ref_id |-> input_wiring.ref_id,
     ref_id_type |-> input_wiring.ref_id_type,
     ref_key |-> input_wiring.ref_key,
     type |-> input_wiring.type,
     filters |-> input_wiring.filters]

\* what an adapter answers to a batch: a value for every name of the batch,
\* for an adapter that answers more than it was asked also one for "shared",
\* or the fault its load function raises
AdapterAnswers == {"asked", "more", "fails"}

AdapterFault == "AdapterError"

load_data_from_adapter(adapter_key, wf_input_name_to_filtered_source_mapping_dict, answer) ==
    LET names == DOMAIN wf_input_name_to_filtered_source_mapping_dict
    IN  [name \in names \cup (IF answer = "more" THEN {"shared"} ELSE {}) |->
            IF name \in names
            THEN adapter_key \o ":"
                     \o wf_input_name_to_filtered_source_mapping_dict[name].ref_id
            ELSE adapter_key]

\* the entries marked use_default_value and no other
IncludedWirings_OnlyMarked(input_wirings) ==
    SelectSeq(input_wirings, LAMBDA input_wiring : input_wiring.use_default_value = TRUE)

\* the entries the loop appends to wirings_by_adapter (wiring/__init__.py:61-63)
IncludedWirings(input_wirings) ==
    SelectSeq(input_wirings, LAMBDA input_wiring : input_wiring.use_default_value = FALSE)

\* the keys of wirings_by_adapter, in the order of their insertion
RECURSIVE AdapterKeys(_, _)
AdapterKeys(wirings, k) ==
    IF k > Len(wirings) THEN <<>>
    ELSE LET rest == AdapterKeys(wirings, k + 1)
         IN  <<wirings[k].adapter_id>>
                 \o SelectSeq(rest, LAMBDA key : key # wirings[k].adapter_id)

\* the dict comprehension of the call: of two entries with one name the later stays
Batch(input_wirings_of_adapter) ==
    [name \in {input_wirings_of_adapter[k].workflow_input_name :
                  k \in 1..Len(input_wirings_of_adapter)} |->
        LET last == CHOOSE k \in 1..Len(input_wirings_of_adapter) :
                        /\ input_wirings_of_adapter[k].workflow_input_name = name
                        /\ \A j \in (k + 1)..Len(input_wirings_of_adapter) :
                              input_wirings_of_adapter[j].workflow_input_name # name
        IN  FilteredSource(input_wirings_of_adapter[last])]

\* the map that holds what the first call returned and nothing of the later ones
LoadedData_FirstCall(adapter_calls, k) ==
    IF k = 0 THEN EmptyMap ELSE adapter_calls[1].returned

RECURSIVE LoadedData(_, _)
LoadedData(adapter_calls, k) ==
    IF k = 0 THEN EmptyMap
    ELSE MergeMaps(LoadedData(adapter_calls, k - 1), adapter_calls[k].returned)

\* the calls of the loop over the adapters taken in the order adapter_keys
LoadCalls(adapter_keys, wirings, answers) ==
    LET batch(k) == Batch(SelectSeq(wirings, LAMBDA w : w.adapter_id = adapter_keys[k]))
    IN  [k \in 1..Len(adapter_keys) |->
            [adapter_key |-> adapter_keys[k],
             batch |-> batch(k),
             raised |-> IF answers[adapter_keys[k]] = "fails" THEN AdapterFault
                        ELSE "none",
             returned |-> IF answers[adapter_keys[k]] = "fails" THEN EmptyMap
                          ELSE load_data_from_adapter(adapter_keys[k], batch(k),
                                                      answers[adapter_keys[k]])]]

\* the loop that goes on to the next adapter after an exception
Performed_GoOn(adapter_calls) == adapter_calls

\* the calls made: an exception of a call ends the loop
Performed(adapter_calls) ==
    IF \E k \in 1..Len(adapter_calls) : adapter_calls[k].raised # "none"
    THEN SubSeq(adapter_calls, 1,
                CHOOSE k \in 1..Len(adapter_calls) :
                    /\ adapter_calls[k].raised # "none"
                    /\ \A j \in 1..(k - 1) : adapter_calls[j].raised = "none")
    ELSE adapter_calls

RaisedBy(adapter_calls) ==
    IF adapter_calls # <<>> /\ adapter_calls[Len(adapter_calls)].raised # "none"
    THEN adapter_calls[Len(adapter_calls)].raised
    ELSE "none"

Dispatched(wirings, answers) ==
    LET adapter_calls == Performed(LoadCalls(AdapterKeys(wirings, 1), wirings, answers))
    IN  [raised |-> RaisedBy(adapter_calls),
         value |-> IF RaisedBy(adapter_calls) = "none"
                   THEN LoadedData(adapter_calls, Len(adapter_calls))
                   ELSE EmptyMap,
         calls |-> adapter_calls]

\* the dispatch that also sends the entries marked use_default_value
resolve_and_load_data_from_wiring_WithDefaults(workflow_wiring, answers) ==
    Dispatched(workflow_wiring.input_wirings, answers)

\* resolve_and_load_data_from_wiring (wiring/__init__.py:51-85)
resolve_and_load_data_from_wiring(workflow_wiring, answers) ==
    Dispatched(IncludedWirings(workflow_wiring.input_wirings), answers)

(***************************************************************************)
(* Dispatch of the output wirings to the adapters                          *)
(***************************************************************************)
FilteredSink(output_wiring) ==
    [ref_id |-> output_wiring.ref_id,
     ref_id_type |-> output_wiring.ref_id_type,
     ref_key |-> output_wiring.ref_key,
     type |-> output_wiring.type,
     filters |-> output_wiring.filters]

\* what the send function of an adapter answers: None, the empty dict of
\* send_data (external_sources/__init__.py:53), the values it did not send,
\* or the fault it raises.  <<>> stands for None, <<d>> for the dict d
SendAnswers == {"none", "empty", "kept", "fails"}

send_data_with_adapter(adapter_key, wf_output_name_to_filtered_sink_mapping_dict, wf_output_name_to_value_mapping_dict, answer) ==
    IF answer = "none" THEN <<>>
    ELSE IF answer = "empty" THEN <<EmptyMap>>
    ELSE <<[name \in DOMAIN wf_output_name_to_filtered_sink_mapping_dict |->
               wf_output_name_to_value_mapping_dict[name]]>>

SinkBatch(output_wirings_of_adapter) ==
    [name \in {output_wirings_of_adapter[k].workflow_output_name :
                  k \in 1..Len(output_wirings_of_adapter)} |->
        LET last == CHOOSE k \in 1..Len(output_wirings_of_adapter) :
                        /\ output_wirings_of_adapter[k].workflow_output_name = name
                        /\ \A j \in (k + 1)..Len(output_wirings_of_adapter) :
                              output_wirings_of_adapter[j].workflow_output_name # name
        IN  FilteredSink(output_wirings_of_adapter[last])]

\* all_data_not_send_by_adapter.update for every answer that is not None
NotSentData_KeepLast(adapter_calls, k) ==
    IF k = 0 \/ adapter_calls[k].returned = <<>> THEN EmptyMap
    ELSE adapter_calls[k].returned[1]

RECURSIVE NotSentData(_, _)
NotSentData(adapter_calls, k) ==
    IF k = 0 THEN EmptyMap
    ELSE IF adapter_calls[k].returned = <<>> THEN NotSentData(adapter_calls, k - 1)
    ELSE MergeMaps(NotSentData(adapter_calls, k - 1), adapter_calls[k].returned[1])

SendCalls(adapter_keys, wirings, result_data, answers) ==
    LET batch(k) ==
            SinkBatch(SelectSeq(wirings, LAMBDA w : w.adapter_id = adapter_keys[k]))
    IN  [k \in 1..Len(adapter_keys) |->
            [adapter_key |-> adapter_keys[k],
             batch |-> batch(k),
             data |-> result_data,
             raised |-> IF answers[adapter_keys[k]] = "fails" THEN AdapterFault
                        ELSE "none",
             returned |-> IF answers[adapter_keys[k]] = "fails" THEN <<>>
                          ELSE send_data_with_adapter(adapter_keys[k], batch(k),
                                                      result_data,
                                                      answers[adapter_keys[k]])]]

\* the send loop that leaves out the entries of the adapter named first
resolve_and_send_data_from_wiring_SkipFirst(workflow_wiring, result_data, answers) ==
    LET wirings == workflow_wiring.output_wirings
        adapter_calls ==
            Performed(SendCalls(IF wirings = <<>> THEN <<>>
                                ELSE Tail(AdapterKeys(wirings, 1)),
                                wirings, result_data, answers))
    IN  [raised |-> RaisedBy(adapter_calls),
         value |-> IF RaisedBy(adapter_calls) = "none"
                   THEN NotSentData(adapter_calls, Len(adapter_calls))
                   ELSE EmptyMap,
         calls |-> adapter_calls]

\* resolve_and_send_data_from_wiring (wiring/__init__.py:88-122)
resolve_and_send_data_from_wiring(workflow_wiring, result_data, answers) ==
    LET wirings == workflow_wiring.output_wirings
        adapter_calls ==
            Performed(SendCalls(AdapterKeys(wirings, 1), wirings, result_data, answers))
    IN  [raised |-> RaisedBy(adapter_calls),
         value |-> IF RaisedBy(adapter_calls) = "none"
                   THEN NotSentData(adapter_calls, Len(adapter_calls))
                   ELSE EmptyMap,
         calls |-> adapter_calls]

(***************************************************************************)
(* The wirings handed to the wiring functions                              *)
(***************************************************************************)
Shape(adapter_id, ref_id, type, filters, use_default_value) ==
    [adapter_id |-> adapter_id, ref_id |-> ref_id, type |-> type, filters |-> filters,
     use_default_value |-> use_default_value]

WiringTypes == {"metadata(any)", "multitsframe"}

VirtualInputs ==
    {Shape(VirtualAdapter, ref_id, type, EmptyMap, <<>>) :
        ref_id \in {"SK1/src1", "SK1/src2", "SK1/zz"}, type \in WiringTypes}
    \cup {Shape(VirtualAdapter, ref_id, "multitsframe", filters, <<>>) :
            ref_id \in {"SK1/src1", "SK1/src2"},
            filters \in {OneFilter("unit", "m3"), OneFilter("lo", "0")}}

DirectShapes ==
    {Shape("direct-adapter", "x", "multitsframe", filters, <<>>) :
        filters \in {EmptyMap, OneFilter("unit", "m3")}}

VirtualOutputs ==
    {Shape(VirtualAdapter, "SK1/snk1", type, EmptyMap, <<>>) : type \in WiringTypes}
    \cup {Shape(VirtualAdapter, "SK1/snk1", "multitsframe", OneFilter("unit", "m3"), <<>>)}

DispatchAdapters == {"sql-adapter", "rest-adapter"}

DispatchShapes ==
    {Shape(adapter_id, "x", "multitsframe", EmptyMap, use_default_value) :
        adapter_id \in DispatchAdapters,
        use_default_value \in {<<>>, <<FALSE>>, <<TRUE>>}}

DispatchOutputs ==
    {Shape(adapter_id, "x", "multitsframe", EmptyMap, <<>>) :
        adapter_id \in DispatchAdapters}

Lists(shapes, n) == UNION {[1..k -> shapes] : k \in 0..n}

WorkflowWiring(inputs, outputs) ==
    [input_wirings |->
        [i \in 1..Len(inputs) |->
            InputWiring(i, inputs[i].adapter_id, inputs[i].ref_id, inputs[i].type,
                        inputs[i].filters, inputs[i].use_default_value)],
     output_wirings |->
        [i \in 1..Len(outputs) |->
            OutputWiring(i, outputs[i].adapter_id, outputs[i].ref_id, outputs[i].type,
                         outputs[i].filters)]]

ResolutionWirings ==
    {WorkflowWiring(inputs, outputs) :
        inputs \in Lists(VirtualInputs \cup DirectShapes, MaxWirings),
        outputs \in Lists(VirtualOutputs \cup DirectShapes, 1)}
    \cup {WorkflowWiring(inputs, outputs) :
            inputs \in Lists(VirtualInputs \cup DirectShapes, 1),
            outputs \in Lists(VirtualOutputs \cup DirectShapes, MaxWirings)}

\* the input entries of a wiring to dispatch, as its document gives them
DispatchInputs == Lists(DispatchShapes, MaxWirings + 1)

DispatchOutputLists == Lists(DispatchOutputs, MaxWirings + 1)

\* the values of the workflow outputs
ResultData(workflow_wiring) ==
    [name \in {workflow_wiring.output_wirings[i].workflow_output_name :
                  i \in DOMAIN workflow_wiring.output_wirings} |-> "value of " \o name]

InitWiring ==
    /\ doc = NoStructure
    /\ delete_existing_structure = FALSE
    /\ outcome = NoOutcome
    /\ pc = "idle"
    /\ store = WiringStore
    /\ before = WiringStore
    /\ calls = <<>>
    /\ nreq = 0
    /\ request = NoRequest
    /\ response = NoResponse
    /\ held_wiring = NoWiring

\* a resolution rewrites the wiring its caller holds and reads the store;
\* resolve_virtual_structure_wirings returns None, resolve_virtual_wirings the wiring
Resolution(op, wiring_in, result, returned) ==
    /\ request' = [op |-> op, args |-> wiring_in]
    /\ response' = [raised |-> result.raised,
                    value |-> IF result.raised = "none" THEN returned ELSE PyNone]
    /\ held_wiring' = result.value
    /\ calls' = IF result.queried THEN <<"structure_service">> ELSE <<>>
    /\ before' = store
    /\ pc' = "answered"
    /\ UNCHANGED <<doc, delete_existing_structure, outcome, store, nreq>>

ResolveVirtualStructureWirings ==
    /\ pc = "idle"
    /\ \E wiring_in \in ResolutionWirings :
          Resolution("resolve_virtual_structure_wirings", wiring_in,
                     resolve_virtual_structure_wirings(store, wiring_in), PyNone)

ResolveVirtualWirings ==
    /\ pc = "idle"
    /\ \E wiring_in \in ResolutionWirings :
          LET result == resolve_virtual_wirings(store, wiring_in)
          IN  Resolution("resolve_virtual_wirings", wiring_in, result, result.value)

\* a dispatch calls adapters and leaves wiring and store alone
Dispatch(op, inputs, outputs, answers, result) ==
    /\ request' = [op |-> op, args |-> WorkflowWiring(inputs, outputs),
                   given |-> inputs, answers |-> answers]
    /\ response' = [raised |-> result.raised,
                    value |-> IF result.raised = "none" THEN result.value ELSE PyNone]
    /\ held_wiring' = WorkflowWiring(inputs, outputs)
    /\ calls' = result.calls
    /\ before' = store
    /\ pc' = "answered"
    /\ UNCHANGED <<doc, delete_existing_structure, outcome, store, nreq>>

ResolveAndLoadData ==
    /\ pc = "idle"
    /\ \E inputs \in DispatchInputs, answers \in [DispatchAdapters -> AdapterAnswers] :
          Dispatch("resolve_and_load_data_from_wiring", inputs, <<>>, answers,
                   resolve_and_load_data_from_wiring(WorkflowWiring(inputs, <<>>),
                                                     answers))

ResolveAndSendData ==
    /\ pc = "idle"
    /\ \E outputs \in DispatchOutputLists, answers \in [DispatchAdapters -> SendAnswers] :
          Dispatch("resolve_and_send_data_from_wiring", <<>>, outputs, answers,
                   resolve_and_send_data_from_wiring(
                       WorkflowWiring(<<>>, outputs),
                       ResultData(WorkflowWiring(<<>>, outputs)), answers))

NextWiring ==
    \/ ResolveVirtualStructureWirings
    \/ ResolveVirtualWirings
    \/ ResolveAndLoadData
    \/ ResolveAndSendData

SpecWiring == InitWiring /\ [][NextWiring]_vars

(***************************************************************************)
(* What the data model says of a document, stated on the document itself   *)
(***************************************************************************)
Constructed == pc = "constructed"

NodeIds(thing_nodes) == {thing_nodes[i].external_id : i \in 1..Len(thing_nodes)}

\* nodes whose declared parent is the external id of no node
Dangling(thing_nodes) ==
    {i \in 1..Len(thing_nodes) :
        /\ thing_nodes[i].parent_external_node_id # PyNone
        /\ thing_nodes[i].parent_external_node_id \notin NodeIds(thing_nodes)}

\* the parent links as a relation on external ids, and its transitive closure
ParentEdges(thing_nodes) ==
    {<<thing_nodes[i].external_id, thing_nodes[i].parent_external_node_id>> :
        i \in {j \in 1..Len(thing_nodes) : thing_nodes[j].parent_external_node_id # PyNone}}

Linked(R) == {p \in R \X R : p[1][2] = p[2][1]}

Compose(R) == R \cup {<<p[1][1], p[2][2]>> : p \in Linked(R)}

RECURSIVE Closure(_, _)
Closure(R, n) == IF n = 0 THEN R ELSE Closure(Compose(R), n - 1)

OnCycleIds(thing_nodes) ==
    {u \in ExternalIds :
        <<u, u>> \in Closure(ParentEdges(thing_nodes), Cardinality(ExternalIds))}

\* nodes reachable from a root through child links
RECURSIVE Descendants(_, _, _)
Descendants(thing_nodes, S, n) ==
    IF n = 0 THEN S
    ELSE Descendants(thing_nodes,
            S \cup {j \in 1..Len(thing_nodes) :
                      \E i \in S : thing_nodes[j].parent_external_node_id
                                        = thing_nodes[i].external_id},
            n - 1)

Roots(thing_nodes) ==
    {r \in 1..Len(thing_nodes) : thing_nodes[r].parent_external_node_id = PyNone}

\* pairs <<root, node>>: the node is reachable from the root and differs in its key
Mismatches(thing_nodes) ==
    {m \in Roots(thing_nodes) \X (1..Len(thing_nodes)) :
        /\ m[2] \in Descendants(thing_nodes, {m[1]}, Len(thing_nodes))
        /\ thing_nodes[m[2]].stakeholder_key # thing_nodes[m[1]].stakeholder_key}

\* pairs occurring twice in one list
RepeatedPairs(element_list) ==
    {KeyOf(element_list[i]) : i \in {k \in 1..Len(element_list) :
        \E j \in 1..Len(element_list) :
            j # k /\ KeyOf(element_list[j]) = KeyOf(element_list[k])}}

Attachments(values) ==
    {<<"Source", values.sources[i]>> : i \in 1..Len(values.sources)}
        \cup {<<"Sink", values.sinks[i]>> : i \in 1..Len(values.sinks)}

HasIdList(element) == element.thing_node_external_ids # <<>>

IdsOf(element) == Range(element.thing_node_external_ids[1])

RepeatsAnId(element) ==
    /\ HasIdList(element)
    /\ Cardinality(IdsOf(element)) < Len(element.thing_node_external_ids[1])

WellFormedFilter(f) ==
    /\ f.name # <<>>
    /\ \E k \in 1..Len(f.name[1]) : f.name[1][k] # " "
    /\ f.type # <<>>
    /\ f.type[1] = "free_text"
    /\ f.required # <<>>

FiltersOf(values) == Range(AllFilters(values.sources) \o AllFilters(values.sinks))

(***************************************************************************)
(* Claims on the construction of CompleteStructure                         *)
(***************************************************************************)

\* C1: every submission whose parent links contain a cycle is rejected with a
\* validation error, and the circular-reference error names an external id that
\* lies on a cycle of the submission.
C1_CycleRejected ==
    Constructed /\ OnCycleIds(doc.thing_nodes) # {} =>
        /\ outcome.kind = "ValidationError"
        /\ outcome.error.check = "check_for_circular_reference" =>
              outcome.error.x \in OnCycleIds(doc.thing_nodes)

\* C2: every submission in which a node reachable from a root through child
\* links carries another stakeholder key than that root is rejected with a
\* validation error, and the stakeholder error names such a node, the key of its
\* root and the key found.
C2_StakeholderMismatchRejected ==
    Constructed /\ Mismatches(doc.thing_nodes) # {} =>
        /\ outcome.kind = "ValidationError"
        /\ outcome.error.check = "check_stakeholder_key_consistency" =>
              \E m \in Mismatches(doc.thing_nodes) :
                 /\ outcome.error.x = doc.thing_nodes[m[2]].external_id
                 /\ outcome.error.y = doc.thing_nodes[m[1]].stakeholder_key
                 /\ outcome.error.z = doc.thing_nodes[m[2]].stakeholder_key

C4_DanglingParent ==
    Constructed =>
        /\ Dangling(doc.thing_nodes) # {} =>
              /\ outcome.kind = "ValidationError"
              /\ outcome.error.check = "validate_root_nodes_parent_ids_are_none"
              /\ \E i \in Dangling(doc.thing_nodes) :
                    /\ outcome.error.x = doc.thing_nodes[i].name
                    /\ outcome.error.y = doc.thing_nodes[i].parent_external_node_id
        /\ Dangling(doc.thing_nodes) = {} =>
              /\ validate_root_nodes_parent_ids_are_none(doc) = NoError
              /\ outcome.error.check # "validate_root_nodes_parent_ids_are_none"

C4_Witness ==
    /\ Constructed
    /\ Len(doc.thing_nodes) >= 2
    /\ Dangling(doc.thing_nodes) # {}
    /\ Roots(doc.thing_nodes) # {}
    /\ outcome.error.check = "validate_root_nodes_parent_ids_are_none"

\* C5: a submission in which a Source or a Sink lists an id of no submitted
\* ThingNode is rejected with a validation error, and the error of the reference
\* check names such a Source (respectively Sink) by its own external id together
\* with an id it lists that is missing, whatever the sources list holds.
C5_MissingReferenceNamed ==
    LET offending == {a \in Attachments(doc) :
                        HasIdList(a[2]) /\ ~(IdsOf(a[2]) \subseteq NodeIds(doc.thing_nodes))}
    IN  Constructed /\ offending # {} =>
           /\ outcome.kind = "ValidationError"
           /\ outcome.error.check = "validate_source_sink_references" =>
                 \E a \in offending :
                    /\ outcome.error.x = a[1]
                    /\ outcome.error.y = a[2].external_id
                    /\ outcome.error.z \in IdsOf(a[2]) \ NodeIds(doc.thing_nodes)

\* C6: a submission in which one Source or Sink lists the same id twice is
\* rejected with a validation error; when no Source or Sink repeats an id in its
\* own list (an id shared by the lists of two of them included) the check of the
\* id lists raises nothing.
C6_RepeatedAttachmentIds ==
    Constructed =>
        /\ (\E a \in Attachments(doc) : RepeatsAnId(a[2])) =>
              /\ check_for_duplicate_ids_in_thing_node_external_ids(doc) # NoError
              /\ outcome.kind = "ValidationError"
        /\ (\A a \in Attachments(doc) : HasIdList(a[2]) /\ ~RepeatsAnId(a[2])) =>
              /\ check_for_duplicate_ids_in_thing_node_external_ids(doc) = NoError
              /\ outcome.error.check # "check_for_duplicate_ids_in_thing_node_external_ids"

C6_Witness ==
    /\ Constructed
    /\ \E a, b \in Attachments(doc) :
          /\ a # b
          /\ HasIdList(a[2])
          /\ ~RepeatsAnId(a[2])
          /\ RepeatsAnId(b[2])
          /\ IdsOf(a[2]) \cap IdsOf(b[2]) # {}
    /\ outcome.kind = "ValidationError"
    /\ outcome.error.check = "check_for_duplicate_ids_in_thing_node_external_ids"

\* C7: every Source and Sink of an accepted CompleteStructure is attached to at
\* least one ThingNode: a submission with a Source or Sink whose id list is
\* missing or empty is rejected with a validation error.
C7_AttachedToSomeNode ==
    Constructed /\ (\E a \in Attachments(doc) : ~HasIdList(a[2]) \/ IdsOf(a[2]) = {})
        => outcome.kind = "ValidationError"

\* C8: a submission with a passthrough filter lacking a name, with a blank name,
\* with a type other than free_text or without a required flag is rejected with
\* a validation error; well-formed filters are not rejected by the filter check.
C8_FilterShape ==
    Constructed =>
        /\ (\E f \in FiltersOf(doc) : ~WellFormedFilter(f)) =>
              outcome.kind = "ValidationError"
        /\ (\A f \in FiltersOf(doc) : WellFormedFilter(f)) =>
              outcome.error.check \notin {"Filter", "Filter.set_internal_name"}

\* C9: validation has no false rejection: a submission with at least one element
\* type whose declared parents exist, whose parent links have no cycle, whose
\* trees are uniform in their stakeholder key, whose lists repeat no pair, whose
\* Sources and Sinks list existing ids without repeating one, and whose filters
\* are well formed, is accepted as a CompleteStructure carrying the same entities.
ValidSubmission(values) ==
    /\ values.element_types # <<>>
    /\ Dangling(values.thing_nodes) = {}
    /\ OnCycleIds(values.thing_nodes) = {}
    /\ Mismatches(values.thing_nodes) = {}
    /\ \A n \in 1..4 : RepeatedPairs(ListOf(values, ListNames[n])) = {}
    /\ \A a \in Attachments(values) :
          /\ HasIdList(a[2])
          /\ IdsOf(a[2]) \subseteq NodeIds(values.thing_nodes)
          /\ ~RepeatsAnId(a[2])
    /\ \A f \in FiltersOf(values) : WellFormedFilter(f)

SameEntities(built, submitted) ==
    /\ Len(built) = Len(submitted)
    /\ \A i \in 1..Len(built) :
          /\ KeyOf(built[i]) = KeyOf(submitted[i])
          /\ built[i].thing_node_external_ids = submitted[i].thing_node_external_ids
          /\ PassthroughFilters(built[i]) # <<>> \/ PassthroughFilters(submitted[i]) # <<>> =>
                /\ Len(PassthroughFilters(built[i])) = Len(PassthroughFilters(submitted[i]))
                /\ \A k \in 1..Len(PassthroughFilters(built[i])) :
                      PassthroughFilters(built[i])[k].name
                          = PassthroughFilters(submitted[i])[k].name[1]

C9_NoFalseRejection ==
    Constructed /\ ValidSubmission(doc) =>
        /\ outcome.kind = "accepted"
        /\ outcome.structure.element_types = doc.element_types
        /\ outcome.structure.thing_nodes = doc.thing_nodes
        /\ SameEntities(outcome.structure.sources, doc.sources)
        /\ SameEntities(outcome.structure.sinks, doc.sinks)

\* a forest of two trees with different stakeholder keys, one of them with a child
C9_Witness ==
    /\ Constructed
    /\ ValidSubmission(doc)
    /\ outcome.kind = "accepted"
    /\ \E r, t \in Roots(doc.thing_nodes) :
          doc.thing_nodes[r].stakeholder_key # doc.thing_nodes[t].stakeholder_key
    /\ \E i \in 1..Len(doc.thing_nodes) : i \notin Roots(doc.thing_nodes)

(***************************************************************************)
(* Claims on the administrative update operation                           *)
(***************************************************************************)

\* C10: a request whose document is rejected at the construction of its
\* CompleteStructure invokes no persistence function, neither delete_structure
\* nor orm_update_structure, and leaves the store as it was.
C10_RejectedRequestPersistsNothing ==
    [][nreq' # nreq /\ outcome'.kind # "accepted" => store' = store /\ calls' = <<>>]_vars

C10_Witness ==
    /\ nreq >= 2
    /\ outcome.kind \notin {"accepted", "none"}
    /\ delete_existing_structure
    /\ ~is_database_empty(store)
    /\ calls = <<>>

\* C11: a full replace is atomic.  When a request with delete_existing_structure
\* set finds a non-empty store and the insertion of the new structure fails with
\* an Integrity or an Update error, the store afterwards holds exactly what it
\* held before the request.
C11_FullReplaceIsAtomic ==
    [][(/\ nreq' # nreq
        /\ delete_existing_structure'
        /\ ~is_database_empty(store)
        /\ "orm_update_structure" \in Range(calls')
        /\ response'.raised \in {"DBIntegrityError", "DBUpdateError"})
       => store' = store]_vars

(***************************************************************************)
(* Claims on the persistence service                                       *)
(***************************************************************************)
ListKinds == {"element_types", "thing_nodes", "sources", "sinks"}

\* an element type of the structure carries a name the store holds under another
\* stakeholder key, in an element type the structure does not replace
NameStoredUnderOtherKey(db, structure) ==
    \E k \in 1..Len(structure.element_types), s \in db.element_types :
        /\ structure.element_types[k].name = s.name
        /\ structure.element_types[k].stakeholder_key # s.stakeholder_key
        /\ \A j \in 1..Len(structure.element_types) :
              KeyOf(structure.element_types[j]) # KeyOf(s)

\* C12: an update_structure that hits a uniqueness violation, an element type
\* name already stored under another stakeholder key, raises the Integrity
\* error and leaves the store exactly as it was before the call: every entity
\* stored before is stored with its old values, no entity of the submission is.
C12_ViolationLeavesStore ==
    (/\ request.op = "update_structure"
     /\ request.fault = "none"
     /\ NameStoredUnderOtherKey(before, outcome.structure))
    => response.raised = "DBIntegrityError" /\ store = before

C12_Witness ==
    /\ request.op = "update_structure"
    /\ request.fault = "none"
    /\ NameStoredUnderOtherKey(before, outcome.structure)
    /\ before.thing_nodes # {}
    /\ \E k \in 1..Len(outcome.structure.thing_nodes) :
          outcome.structure.thing_nodes[k] \notin before.thing_nodes
    /\ response.raised = "DBIntegrityError"

ReadBack(db) ==
    [element_types |-> db.element_types,
     thing_nodes |-> get_all_from_db(db, "thing_nodes").value,
     sources |-> get_all_from_db(db, "sources").value,
     sinks |-> get_all_from_db(db, "sinks").value]

SameEntitiesRead(read, structure) ==
    \A kind \in ListKinds :
        /\ Cardinality(read[kind]) = Len(structure[kind])
        /\ {KeyOf(e) : e \in read[kind]}
              = {KeyOf(structure[kind][k]) : k \in 1..Len(structure[kind])}

Stored(db, kind, id) == \E e \in db[kind] : Id(e) = id

\* C15: per kind, the single lookup returns the stored entity with the id or
\* raises NotFound; the collection lookup returns a map whose keys are exactly
\* the requested ids, each mapped to the entity with that id, or raises NotFound
\* as a whole when a requested id is absent, never a map of a part of the ids.
C15_LookupsAreWhole ==
    /\ request.op = "get_single_from_db" =>
          LET kind == request.args[1]
              id == request.args[2]
          IN  IF Stored(store, kind, id)
              THEN /\ response.raised = "none"
                   /\ response.value \in store[kind]
                   /\ Id(response.value) = id
              ELSE response.raised = "DBNotFoundError"
    /\ request.op = "get_collection_from_db" =>
          LET kind == request.args[1]
              ids == request.args[2]
          IN  IF \A k \in 1..Len(ids) : Stored(store, kind, ids[k])
              THEN /\ response.raised = "none"
                   /\ DOMAIN response.value = Range(ids)
                   /\ \A id \in Range(ids) :
                         response.value[id] \in store[kind] /\ Id(response.value[id]) = id
              ELSE response.raised = "DBNotFoundError"

C15_Witness ==
    /\ request.op = "get_collection_from_db"
    /\ Len(request.args[2]) = 2
    /\ Stored(store, request.args[1], request.args[2][1])
    /\ ~Stored(store, request.args[1], request.args[2][2])
    /\ response.raised = "DBNotFoundError"

\* what get_children is to return for the id of a ThingNode
ChildrenSourcesSinks(db, id) ==
    [children |-> {n \in db.thing_nodes :
                      n.parent_external_node_id # PyNone /\ ParentId(n) = id},
     sources |-> {e \in db.sources : id \in AttachedIds(e)},
     sinks |-> {e \in db.sinks : id \in AttachedIds(e)}]

RootsOnly(db) ==
    [children |-> {n \in db.thing_nodes : n.parent_external_node_id = PyNone},
     sources |-> {}, sinks |-> {}]

HasNothingBelow(db, id) ==
    /\ ChildrenSourcesSinks(db, id).children = {}
    /\ ChildrenSourcesSinks(db, id).sources = {}
    /\ ChildrenSourcesSinks(db, id).sinks = {}

\* C16 as stated: for the id p of a stored ThingNode get_children(p) returns
\* exactly the ThingNodes whose parent is p, the Sources attached to p and the
\* Sinks attached to p; the root query returns the ThingNodes without parent
\* and no Sources or Sinks.
C16_ChildrenOfStoredNode ==
    request.op = "get_children" =>
        IF request.args = <<>>
        THEN response.raised = "none" /\ response.value = RootsOnly(store)
        ELSE Stored(store, "thing_nodes", request.args[1])
             => /\ response.raised = "none"
                /\ response.value = ChildrenSourcesSinks(store, request.args[1])

\* C16 amended: the same for a stored ThingNode that has a child, a Source or a
\* Sink; for a stored ThingNode that has none of them get_children raises
\* NotFound.
C16_ChildrenOfParentNode ==
    request.op = "get_children" =>
        IF request.args = <<>>
        THEN response.raised = "none" /\ response.value = RootsOnly(store)
        ELSE Stored(store, "thing_nodes", request.args[1])
             => IF HasNothingBelow(store, request.args[1])
                THEN response.raised = "DBNotFoundError"
                ELSE /\ response.raised = "none"
                     /\ response.value = ChildrenSourcesSinks(store, request.args[1])

C16_Witness ==
    /\ request.op = "get_children"
    /\ request.args # <<>>
    /\ Stored(store, "thing_nodes", request.args[1])
    /\ response.raised = "none"
    /\ Cardinality(response.value.children) = 2
    /\ response.value.sources # {}
    /\ response.value.sinks = {}


(***************************************************************************)
(* Claims on the wiring functions                                          *)
(***************************************************************************)
ResolutionOps == {"resolve_virtual_structure_wirings", "resolve_virtual_wirings"}

IsVirtual(wiring) == wiring.adapter_id = VirtualAdapter

ReferencedIn(entities, wiring) == {e \in entities : Id(e) = wiring.ref_id}

\* every virtual input references a stored Source, every virtual output a stored Sink
ReferencesStored(db, workflow_wiring) ==
    /\ \A i \in DOMAIN workflow_wiring.input_wirings :
          IsVirtual(workflow_wiring.input_wirings[i])
              => ReferencedIn(db.sources, workflow_wiring.input_wirings[i]) # {}
    /\ \A i \in DOMAIN workflow_wiring.output_wirings :
          IsVirtual(workflow_wiring.output_wirings[i])
              => ReferencedIn(db.sinks, workflow_wiring.output_wirings[i]) # {}

PointsAt(wiring_in, wiring_out, source_or_sink) ==
    /\ wiring_out.adapter_id = source_or_sink.adapter_key
    /\ IF wiring_in.type = "metadata(any)"
       THEN /\ wiring_out.ref_id = source_or_sink.ref_id
            /\ wiring_out.ref_key = source_or_sink.ref_key
            /\ wiring_out.ref_id_type = "THINGNODE"
       ELSE wiring_out.ref_id = IF IsSource(source_or_sink)
                                THEN source_or_sink.source_id
                                ELSE source_or_sink.sink_id

\* what holds of every virtual entry of the lists wirings_in / wirings_out
EveryVirtualEntry(entities, wirings_in, wirings_out, Holds(_, _, _)) ==
    /\ Len(wirings_out) = Len(wirings_in)
    /\ \A i \in DOMAIN wirings_in :
          IsVirtual(wirings_in[i])
              => \A e \in ReferencedIn(entities, wirings_in[i]) :
                    Holds(wirings_in[i], wirings_out[i], e)

ReturnedNormally ==
    /\ request.op \in ResolutionOps
    /\ response.raised = "none"
    /\ ReferencesStored(store, request.args)

\* C17: after a resolution of a wiring whose virtual entries all reference
\* stored Sources and Sinks, every entry that was virtual, input or output,
\* carries the adapter key of the entity it referenced, and the ThingNode
\* reference of that entity if its declared type is metadata(any), the
\* entity's source_id or sink_id otherwise
C17_VirtualEntriesPointAtEntity ==
    ReturnedNormally
        => /\ EveryVirtualEntry(store.sources, request.args.input_wirings,
                                held_wiring.input_wirings, PointsAt)
           /\ EveryVirtualEntry(store.sinks, request.args.output_wirings,
                                held_wiring.output_wirings, PointsAt)

\* the same of resolve_virtual_structure_wirings alone
C17_OfStructureWirings ==
    request.op = "resolve_virtual_structure_wirings" => C17_VirtualEntriesPointAtEntity

PresetWins(wiring_in, wiring_out, source_or_sink) ==
    /\ DOMAIN wiring_out.filters
           = DOMAIN wiring_in.filters \cup DOMAIN source_or_sink.preset_filters
    /\ \A key \in DOMAIN wiring_out.filters :
          wiring_out.filters[key] =
              IF key \in DOMAIN source_or_sink.preset_filters
              THEN source_or_sink.preset_filters[key]
              ELSE wiring_in.filters[key]

\* C18: after a resolution the filter map of an entry that was virtual is the
\* union of the filters its caller gave and the preset filters of the entity
\* it referenced, the preset value standing for every key of both
C18_PresetFiltersWin ==
    ReturnedNormally
        => /\ EveryVirtualEntry(store.sources, request.args.input_wirings,
                                held_wiring.input_wirings, PresetWins)
           /\ EveryVirtualEntry(store.sinks, request.args.output_wirings,
                                held_wiring.output_wirings, PresetWins)

\* the same of resolve_virtual_structure_wirings alone
C18_OfStructureWirings ==
    request.op = "resolve_virtual_structure_wirings" => C18_PresetFiltersWin

\* the entries of wirings_out stand where those of wirings_in stood, and those
\* that are not virtual are the same in every field
FrameOf(wirings_in, wirings_out) ==
    /\ Len(wirings_out) = Len(wirings_in)
    /\ \A i \in DOMAIN wirings_in :
          /\ wirings_out[i].type = wirings_in[i].type
          /\ ~IsVirtual(wirings_in[i]) => wirings_out[i] = wirings_in[i]

NamesOf(workflow_wiring) ==
    <<[i \in DOMAIN workflow_wiring.input_wirings |->
          workflow_wiring.input_wirings[i].workflow_input_name],
      [i \in DOMAIN workflow_wiring.output_wirings |->
          workflow_wiring.output_wirings[i].workflow_output_name]>>

HasVirtualEntry(workflow_wiring) ==
    \/ \E i \in DOMAIN workflow_wiring.input_wirings :
          IsVirtual(workflow_wiring.input_wirings[i])
    \/ \E i \in DOMAIN workflow_wiring.output_wirings :
          IsVirtual(workflow_wiring.output_wirings[i])

\* C19: resolve_virtual_structure_wirings leaves every entry that is not
\* virtual the same in every field and at its position, adds, removes and
\* reorders no entry of either list, and given a wiring with no virtual entry
\* it changes nothing and does not ask the persistence service
C19_NonVirtualEntriesUntouched ==
    request.op = "resolve_virtual_structure_wirings"
        => /\ FrameOf(request.args.input_wirings, held_wiring.input_wirings)
           /\ FrameOf(request.args.output_wirings, held_wiring.output_wirings)
           /\ NamesOf(held_wiring) = NamesOf(request.args)
           /\ ~HasVirtualEntry(request.args)
                 => /\ held_wiring = request.args
                    /\ response.raised = "none"
                    /\ calls = <<>>

C19_Witness ==
    /\ request.op = "resolve_virtual_structure_wirings"
    /\ response.raised = "none"
    /\ Len(request.args.input_wirings) = 2
    /\ IsVirtual(request.args.input_wirings[1])
    /\ ~IsVirtual(request.args.input_wirings[2])
    /\ request.args.input_wirings[2].filters # EmptyMap
    /\ held_wiring.input_wirings[1].adapter_id = "sql-adapter"
    /\ calls # <<>>

IncludedOf(workflow_wiring) ==
    {i \in DOMAIN workflow_wiring.input_wirings :
        workflow_wiring.input_wirings[i].use_default_value = FALSE}

EntriesOf(workflow_wiring, adapter_key) ==
    {i \in IncludedOf(workflow_wiring) :
        workflow_wiring.input_wirings[i].adapter_id = adapter_key}

\* no adapter that has an entry to serve raises
NoAdapterFails ==
    \A k \in DOMAIN request.args.input_wirings \cup DOMAIN request.args.output_wirings :
        /\ k \in IncludedOf(request.args)
              => request.answers[request.args.input_wirings[k].adapter_id] # "fails"
        /\ k \in DOMAIN request.args.output_wirings
              => request.answers[request.args.output_wirings[k].adapter_id] # "fails"

\* C20: loading inputs calls the load function of every adapter that has an
\* included entry exactly once, with a batch that holds just the included
\* entries of that adapter, by workflow input name and with the entry's ref id,
\* ref id type, ref key, type and filters; no call has an empty batch, and the
\* map returned is the merge of what the adapters returned, the later call
\* standing for a name that two adapters returned
C20_OneBatchPerAdapter ==
    request.op = "resolve_and_load_data_from_wiring" /\ NoAdapterFails
        => LET inputs == request.args.input_wirings
               adapters == {inputs[i].adapter_id : i \in IncludedOf(request.args)}
           IN  /\ {calls[k].adapter_key : k \in DOMAIN calls} = adapters
               /\ Len(calls) = Cardinality(adapters)
               /\ \A k \in DOMAIN calls :
                     LET entries == EntriesOf(request.args, calls[k].adapter_key)
                     IN  /\ entries # {}
                         /\ DOMAIN calls[k].batch
                                = {inputs[i].workflow_input_name : i \in entries}
                         /\ \A i \in entries :
                               calls[k].batch[inputs[i].workflow_input_name]
                                   = [ref_id |-> inputs[i].ref_id,
                                      ref_id_type |-> inputs[i].ref_id_type,
                                      ref_key |-> inputs[i].ref_key,
                                      type |-> inputs[i].type,
                                      filters |-> inputs[i].filters]
               /\ response.raised = "none"
               /\ DOMAIN response.value
                      = UNION {DOMAIN calls[k].returned : k \in DOMAIN calls}
               /\ \A name \in DOMAIN response.value :
                     \E k \in DOMAIN calls :
                        /\ name \in DOMAIN calls[k].returned
                        /\ response.value[name] = calls[k].returned[name]
                        /\ \A j \in (k + 1)..Len(calls) :
                              name \notin DOMAIN calls[j].returned

C20_Witness ==
    /\ request.op = "resolve_and_load_data_from_wiring"
    /\ Len(request.args.input_wirings) = 3
    /\ Len(calls) = 2
    /\ Cardinality(IncludedOf(request.args)) = 2
    /\ "shared" \in DOMAIN calls[1].returned \cap DOMAIN calls[2].returned
    /\ \E i \in DOMAIN request.args.input_wirings :
          /\ request.args.input_wirings[i].use_default_value
          /\ request.args.input_wirings[i].adapter_id = calls[1].adapter_key

\* the calls whose batch holds the name of the input entry i
BatchesOf(i) ==
    {k \in DOMAIN calls :
        request.args.input_wirings[i].workflow_input_name \in DOMAIN calls[k].batch}

\* C21: an input entry is in no batch if and only if it is marked use default
\* value: a marked entry is in no batch, an entry marked FALSE or never marked
\* is in exactly one batch, the one of its own adapter
C21_LeftOutIffMarked ==
    request.op = "resolve_and_load_data_from_wiring" /\ NoAdapterFails
        => \A i \in DOMAIN request.given :
              IF request.given[i].use_default_value = <<TRUE>>
              THEN BatchesOf(i) = {}
              ELSE /\ Cardinality(BatchesOf(i)) = 1
                   /\ \A k \in BatchesOf(i) :
                         calls[k].adapter_key = request.given[i].adapter_id

C21_Witness ==
    /\ request.op = "resolve_and_load_data_from_wiring"
    /\ NoAdapterFails
    /\ Len(request.given) = 3
    /\ request.given[1].use_default_value = <<TRUE>>
    /\ request.given[2].use_default_value = <<>>
    /\ request.given[3].use_default_value = <<FALSE>>
    /\ request.given[2].adapter_id # request.given[3].adapter_id
    /\ BatchesOf(1) = {}
    /\ BatchesOf(2) # BatchesOf(3)

SentBy(adapter_key) ==
    {i \in DOMAIN request.args.output_wirings :
        request.args.output_wirings[i].adapter_id = adapter_key}

\* the calls that returned a dict and not None
Answered == {k \in DOMAIN calls : calls[k].returned # <<>>}

\* C22: sending outputs calls the send function of every adapter an output
\* entry names exactly once, with just the entries of that adapter and the
\* result data, leaving out no entry, and returns the merge of the not-sent
\* maps the adapters returned; an adapter that returns None adds nothing, and
\* the result is empty when every adapter sent all
C22_OneSendPerAdapter ==
    request.op = "resolve_and_send_data_from_wiring" /\ NoAdapterFails
        => LET outputs == request.args.output_wirings
               adapters == {outputs[i].adapter_id : i \in DOMAIN outputs}
           IN  /\ {calls[k].adapter_key : k \in DOMAIN calls} = adapters
               /\ Len(calls) = Cardinality(adapters)
               /\ \A k \in DOMAIN calls :
                     LET entries == SentBy(calls[k].adapter_key)
                     IN  /\ entries # {}
                         /\ DOMAIN calls[k].batch
                                = {outputs[i].workflow_output_name : i \in entries}
                         /\ calls[k].data = ResultData(request.args)
                         /\ \A i \in entries :
                               calls[k].batch[outputs[i].workflow_output_name]
                                   = [ref_id |-> outputs[i].ref_id,
                                      ref_id_type |-> outputs[i].ref_id_type,
                                      ref_key |-> outputs[i].ref_key,
                                      type |-> outputs[i].type,
                                      filters |-> outputs[i].filters]
               /\ \A i \in DOMAIN outputs :
                     \E k \in DOMAIN calls :
                        outputs[i].workflow_output_name \in DOMAIN calls[k].batch
               /\ response.raised = "none"
               /\ DOMAIN response.value
                      = UNION {DOMAIN calls[k].returned[1] : k \in Answered}
               /\ \A name \in DOMAIN response.value :
                     \E k \in Answered :
                        /\ name \in DOMAIN calls[k].returned[1]
                        /\ response.value[name] = calls[k].returned[1][name]
                        /\ \A j \in Answered :
                              j > k => name \notin DOMAIN calls[j].returned[1]
               /\ (\A k \in DOMAIN calls : request.answers[calls[k].adapter_key]
                                              \in {"none", "empty"})
                     => response.value = EmptyMap

C22_Witness ==
    /\ request.op = "resolve_and_send_data_from_wiring"
    /\ Len(request.args.output_wirings) = 3
    /\ Len(calls) = 2
    /\ calls[1].returned = <<>>
    /\ request.answers[calls[2].adapter_key] = "kept"
    /\ Cardinality(DOMAIN calls[2].batch) = 2
    /\ DOMAIN response.value = DOMAIN calls[2].batch

DispatchOps == {"resolve_and_load_data_from_wiring", "resolve_and_send_data_from_wiring"}

\* the adapters that have an entry to serve
ServedAdapters ==
    {request.args.input_wirings[i].adapter_id : i \in IncludedOf(request.args)}
        \cup {request.args.output_wirings[i].adapter_id :
                 i \in DOMAIN request.args.output_wirings}

\* C23: when the load or send function of an adapter raises during a dispatch,
\* the dispatch raises that fault: the adapter was called once, no adapter is
\* called after it, and no map, merged in part, is returned
C23_AdapterFaultPropagates ==
    request.op \in DispatchOps /\ ~NoAdapterFails
        => /\ calls # <<>>
           /\ request.answers[calls[Len(calls)].adapter_key] = "fails"
           /\ calls[Len(calls)].raised = AdapterFault
           /\ \A k \in 1..(Len(calls) - 1) :
                 /\ calls[k].raised = "none"
                 /\ request.answers[calls[k].adapter_key] # "fails"
                 /\ calls[k].adapter_key # calls[Len(calls)].adapter_key
           /\ response.raised = AdapterFault
           /\ response.value = PyNone

C23_Witness ==
    /\ request.op = "resolve_and_load_data_from_wiring"
    /\ response.raised = AdapterFault
    /\ Len(calls) = 1
    /\ Cardinality(ServedAdapters) = 2
    /\ \E a \in ServedAdapters : request.answers[a] = "asked"

(***************************************************************************)
(* Claims on the order of the checks and on the traversals                 *)
(***************************************************************************)
\* the checks in the order the specification gives them
StatedOrder ==
    <<"check_element_types_not_empty",
      "validate_root_nodes_parent_ids_are_none",
      "check_for_duplicate_key_and_id_pairs",
      "check_for_circular_reference",
      "check_stakeholder_key_consistency",
      "validate_source_sink_references",
      "Filter">>

\* what the data model says the submission violates, check by check
Violates(values, check) ==
    CASE check = "check_element_types_not_empty" -> values.element_types = <<>>
      [] check = "validate_root_nodes_parent_ids_are_none" ->
            Dangling(values.thing_nodes) # {}
      [] check = "check_for_duplicate_key_and_id_pairs" ->
            \E list \in ListKinds : RepeatedPairs(values[list]) # {}
      [] check = "check_for_circular_reference" -> OnCycleIds(values.thing_nodes) # {}
      [] check = "check_stakeholder_key_consistency" -> Mismatches(values.thing_nodes) # {}
      [] check = "validate_source_sink_references" ->
            \E a \in Attachments(values) :
               ~(IdsOf(a[2]) \subseteq NodeIds(values.thing_nodes))
      [] check = "Filter" -> \E f \in FiltersOf(values) : ~WellFormedFilter(f)

\* every Source and Sink has an id list and repeats no id in it: the check of
\* the lists, which is none of the seven, has nothing to report
ListsInOrder(values) ==
    \A a \in Attachments(values) : HasIdList(a[2]) /\ ~RepeatsAnId(a[2])

\* C24: of the checks a submission violates, the error reported is that of the
\* earliest in the order empty element_types, dangling parent, duplicate pair,
\* parent cycle, stakeholder key, Source/Sink references, filter shape
C24_EarliestCheckReported ==
    Constructed /\ ListsInOrder(doc)
        => \A n \in DOMAIN StatedOrder :
              /\ Violates(doc, StatedOrder[n])
              /\ \A k \in 1..(n - 1) : ~Violates(doc, StatedOrder[k])
              => /\ outcome.kind # "accepted"
                 /\ outcome.error.check = StatedOrder[n]
                       \/ /\ StatedOrder[n] = "Filter"
                          /\ outcome.error.check = "Filter.set_internal_name"

\* the stated order holds of a document with an element type and without cycle
C24_AmongLaterChecks ==
    /\ doc.element_types # <<>>
    /\ OnCycleIds(doc.thing_nodes) = {}
    /\ Mismatches(doc.thing_nodes) = {}
    => C24_EarliestCheckReported

(***************************************************************************)
(* Claims on resolution with repeated ids and on its failures              *)
(***************************************************************************)
\* C25: for a wiring whose virtual entries all reference stored entities, be
\* their ids distinct or not, resolve_virtual_structure_wirings resolves as
\* many objects as it flagged entries and rewrites the entry at every flagged
\* index from the Source or Sink of that entry's own reference id
C25_EveryFlaggedEntryResolved ==
    /\ request.op = "resolve_virtual_structure_wirings"
    /\ HasVirtualEntry(request.args)
    /\ ReferencesStored(store, request.args)
    => /\ response.raised = "none"
       /\ EveryVirtualEntry(store.sources, request.args.input_wirings,
                            held_wiring.input_wirings, PointsAt)
       /\ EveryVirtualEntry(store.sinks, request.args.output_wirings,
                            held_wiring.output_wirings, PointsAt)

\* the reference ids of the virtual entries of a list are pairwise distinct
DistinctRefs(wirings) ==
    \A i, j \in DOMAIN wirings :
        IsVirtual(wirings[i]) /\ IsVirtual(wirings[j]) /\ wirings[i].ref_id = wirings[j].ref_id
            => i = j

\* the same of wirings that repeat no reference id, and the ValueError of those
\* that repeat one
C25_OfDistinctIds ==
    /\ request.op = "resolve_virtual_structure_wirings"
    /\ ReferencesStored(store, request.args)
    => IF DistinctRefs(request.args.input_wirings)
          /\ DistinctRefs(request.args.output_wirings)
       THEN C25_EveryFlaggedEntryResolved
       ELSE response.raised = "ValueError"

\* C28: whenever resolve_virtual_structure_wirings fails, on an id that is not
\* found or on a count that does not match, it has rewritten no entry: the
\* wiring is the wiring passed in
C28_FailedResolutionRewritesNothing ==
    request.op = "resolve_virtual_structure_wirings" /\ response.raised # "none"
        => held_wiring = request.args

\* the same of the failures on an id that is not found
C28_OfNotFound ==
    request.op = "resolve_virtual_structure_wirings" /\ response.raised = "DBNotFoundError"
        => held_wiring = request.args

(***************************************************************************)
(* Claims on requests served at once                                       *)
(***************************************************************************)
BothServed ==
    /\ request.op = "update_structure_endpoint"
    /\ "workers" \in DOMAIN request
    /\ \A w \in Workers : Worker(w).at = "done" /\ Worker(w).status = 204

\* C26: when two update requests, each with delete_existing_structure = true
\* and a valid structure of its own, are served at once, the store holds
\* after both the structure of one of them and never entities of both
C26_NoMixtureOfTwoUpdates ==
    BothServed => \E w \in Workers : store = StoreOf(Worker(w).new_structure)

\* the same of two requests served one after the other
C26_OfRequestsInTurn ==
    /\ BothServed
    /\ \E w \in Workers : \A i, j \in DOMAIN calls :
          calls[i][1] = w /\ calls[j][1] # w => i < j
    => \E w \in Workers : store = StoreOf(Worker(w).new_structure)

(***************************************************************************)
(* Claims on the order of the adapter calls                                *)
(***************************************************************************)
\* the orders in which the adapters adapter_keys may be called
Orders(adapter_keys) ==
    {order \in [1..Len(adapter_keys) -> {adapter_keys[k] : k \in 1..Len(adapter_keys)}] :
        \A i, j \in 1..Len(adapter_keys) : order[i] = order[j] => i = j}

\* every adapter called answered the names of its batch and no other
OwnNamesOnly ==
    \A k \in DOMAIN calls :
        IF request.op = "resolve_and_load_data_from_wiring"
        THEN /\ calls[k].raised = "none"
             /\ DOMAIN calls[k].returned \subseteq DOMAIN calls[k].batch
        ELSE /\ calls[k].raised = "none"
             /\ calls[k].returned # <<>>
                   => DOMAIN calls[k].returned[1] \subseteq DOMAIN calls[k].batch

\* C27: when every adapter answers names of its own batch only, the map that
\* loading returns and the not-sent map that sending returns are the same for
\* every order in which the adapters are called, and each name in the map has
\* the value that the adapter of its own entry returned for it; loading maps
\* every name of a dispatched entry
C27_OrderOfAdaptersIrrelevant ==
    /\ request.op = "resolve_and_load_data_from_wiring" /\ NoAdapterFails /\ OwnNamesOnly
          => LET wirings == IncludedWirings(request.args.input_wirings)
             IN  /\ response.raised = "none"
                 /\ \A order \in Orders(AdapterKeys(wirings, 1)) :
                       LET adapter_calls == LoadCalls(order, wirings, request.answers)
                       IN  LoadedData(adapter_calls, Len(adapter_calls)) = response.value
                 /\ \A i \in 1..Len(wirings) :
                       \E k \in DOMAIN calls :
                          /\ calls[k].adapter_key = wirings[i].adapter_id
                          /\ wirings[i].workflow_input_name \in DOMAIN response.value
                          /\ response.value[wirings[i].workflow_input_name]
                                = calls[k].returned[wirings[i].workflow_input_name]
    /\ request.op = "resolve_and_send_data_from_wiring" /\ NoAdapterFails /\ OwnNamesOnly
          => LET wirings == request.args.output_wirings
             IN  /\ response.raised = "none"
                 /\ \A order \in Orders(AdapterKeys(wirings, 1)) :
                       LET adapter_calls == SendCalls(order, wirings, ResultData(request.args),
                                                      request.answers)
                       IN  NotSentData(adapter_calls, Len(adapter_calls)) = response.value
                 /\ \A name \in DOMAIN response.value :
                       \E k \in DOMAIN calls, i \in DOMAIN wirings :
                          /\ wirings[i].workflow_output_name = name
                          /\ calls[k].adapter_key = wirings[i].adapter_id
                          /\ calls[k].returned # <<>>
                          /\ response.value[name] = calls[k].returned[1][name]

C27_Witness ==
    /\ request.op = "resolve_and_load_data_from_wiring"
    /\ NoAdapterFails /\ OwnNamesOnly
    /\ Len(calls) = 2
    /\ Cardinality(DOMAIN response.value) = 3
    /\ \E order \in Orders(AdapterKeys(IncludedWirings(request.args.input_wirings), 1)) :
          order[1] = calls[2].adapter_key

\* the same for the not-sent map: two adapters were called and both kept values
C27_WitnessSend ==
    /\ request.op = "resolve_and_send_data_from_wiring"
    /\ NoAdapterFails /\ OwnNamesOnly
    /\ Len(calls) = 2
    /\ \A k \in DOMAIN calls : calls[k].returned # <<>> /\ calls[k].returned[1] # EmptyMap

(***************************************************************************)
(* Claims on the termination of the construction                           *)
(***************************************************************************)
Distinct(ids) == \A i, j \in DOMAIN ids : ids[i] = ids[j] => i = j

\* the traversals take every external id once per root and once per parent chain
OncePerTraversal ==
    Validating =>
        /\ Distinct(request.processed)
        /\ Len(request.frames)
              <= Cardinality({doc.thing_nodes[k].external_id :
                                 k \in DOMAIN doc.thing_nodes}) + 1

\* C29: the construction of a CompleteStructure that has reached the two
\* traversals comes to its end, an accepted structure or an error, for every
\* list of ThingNodes, with cycles among the parent links and with external
\* ids shared by several nodes; for one root the stakeholder key traversal
\* processes no external id twice, and a parent chain is followed no further
\* than to the first node that repeats
C29_ConstructionTerminates ==
    /\ []OncePerTraversal
    /\ Validating ~> (pc = "constructed")

\* a construction that ended on a list with a cycle and a shared external id
C29_Witness ==
    /\ pc = "constructed"
    /\ request.op = "CompleteStructure"
    /\ outcome.error.check = "check_for_circular_reference"
    /\ \E i, j \in DOMAIN doc.thing_nodes :
          /\ i # j
          /\ doc.thing_nodes[i].external_id = doc.thing_nodes[j].external_id
          /\ doc.thing_nodes[i].parent_external_node_id = PyNone

\* statement by statement the construction ends as the validators computed in
\* one step end
C29_SameOutcome ==
    pc = "constructed" /\ request.op = "CompleteStructure"
        => outcome = CompleteStructure(doc)

(***************************************************************************)
(* Claims on the names of the passthrough filters                          *)
(***************************************************************************)
HandedOut ==
    request.op \in {"VirtualStructureAdapterSource.from_structure_service_model",
                    "VirtualStructureAdapterSink.from_structure_service_model"}

\* the name trimmed, lower-cased, each run of whitespace one underscore
Normalised(name) ==
    LET trimmed == LowerStr(Strip(name))
        kept == {i \in 1..Len(trimmed) :
                    ~IsSpace(trimmed[i]) \/ ~IsSpace(trimmed[i - 1])}
        nth(n) == CHOOSE i \in kept : Cardinality({j \in kept : j < i}) = n - 1
    IN  [n \in 1..Cardinality(kept) |->
            IF IsSpace(trimmed[nth(n)]) THEN "_" ELSE trimmed[nth(n)]]

\* C30: the internal_name of every passthrough filter is its name trimmed,
\* lower-cased and with one underscore for each run of whitespace, and the
\* keys of the filters dict that from_structure_service_model gives are the
\* internal names of the filters, each key standing for a filter of that
\* internal name
C30_KeyIsInternalName ==
    HandedOut
        => LET passthrough_filters == PassthroughFilters(request.args)
           IN  /\ \A k \in 1..Len(passthrough_filters) :
                     passthrough_filters[k].internal_name
                         = Normalised(passthrough_filters[k].name)
               /\ DOMAIN response.value.filters
                     = {passthrough_filters[k].internal_name :
                           k \in 1..Len(passthrough_filters)}
               /\ \A key \in DOMAIN response.value.filters :
                     response.value.filters[key].internal_name = key

\* the first half alone: what internal_name is
C30_InternalNameNormalised ==
    HandedOut
        => \A k \in 1..Len(PassthroughFilters(request.args)) :
              PassthroughFilters(request.args)[k].internal_name
                  = Normalised(PassthroughFilters(request.args)[k].name)

\* a stripped name in lower case whose words are one blank apart
PlainName(name) ==
    /\ LowerStr(name) = name
    /\ \A i \in 1..(Len(Strip(name)) - 1) :
          ~(IsSpace(Strip(name)[i]) /\ IsSpace(Strip(name)[i + 1]))

\* the key is the internal name for names in lower case with single blanks
C30_OfPlainNames ==
    HandedOut
        => \A k \in 1..Len(PassthroughFilters(request.args)) :
              PlainName(PassthroughFilters(request.args)[k].name)
                  => replace_whitespace(PassthroughFilters(request.args)[k].name)
                         = PassthroughFilters(request.args)[k].internal_name

====
